---- MODULE Spec2Model ----
(***************************************************************************)
(* A model of the Signalforge dependency-injection container               *)
(* (src/src/container.c, autowire.c, compiler.c, fast_lookup.c,            *)
(* reflection_cache.c, binding.c, factory.c).                              *)
(*                                                                         *)
(* The container is one record `cont`; every public operation of the       *)
(* Container class is one action that applies the whole C function,        *)
(* nested calls included, to that record.  Resolution is recursive in the  *)
(* code and is recursive here; the C stack is bounded by MaxDepth, beyond  *)
(* which the process is taken to have died of stack exhaustion.            *)
(***************************************************************************)
EXTENDS Integers, Sequences, FiniteSets, TLC

VARIABLES
    cont,       \* the sf_container record (struct _sf_container)
    hashOf,     \* ZSTR_H of every identifier: [hi, lo] 32-bit words of a zend_ulong
    sfHasSimd,  \* the build's SF_HAS_SIMD
    world,      \* which vocabulary the calling PHP script draws its arguments from
    last,       \* what the last public call was and what the script observed
    prev,       \* the observation before `last`
    halted,     \* the process died (C stack exhausted by unbounded recursion)
    ops         \* number of public calls made so far

vars == <<cont, hashOf, sfHasSimd, world, last, prev, halted, ops>>

(***************************************************************************)
(* Bounds of the exploration.                                              *)
(***************************************************************************)
MaxOps == 4
MaxDepth == 6
MaxCtxDepth == 9

(***************************************************************************)
(* Program constants.                                                      *)
(***************************************************************************)
SCOPE_TRANSIENT == 0
SCOPE_SINGLETON == 1
SCOPE_INSTANCE == 2
GROUP_SIZE == 16
MAX_GROUPS == 16
CTRL_EMPTY == 128
CTRL_DELETED == 254
MAX_COMPILED_DEPS == 8
AliasHopLimit == 10
FastCacheGroups == 4
ContextInitialCapacity == 8

NULL == "<NULL>"

(***************************************************************************)
(* zvals.  An object is identified by `id` (its handle); `args` are the    *)
(* constructor arguments it was built with.                                *)
(***************************************************************************)
UndefVal == [kind |-> "undef", cls |-> "", id |-> 0, args |-> <<>>]
NullVal == [kind |-> "null", cls |-> "", id |-> 0, args |-> <<>>]
LongVal(n) == [kind |-> "long", cls |-> "", id |-> n, args |-> <<>>]
ObjVal(cls, id, args) == [kind |-> "object", cls |-> cls, id |-> id, args |-> args]

\* A binding's concrete zval: a class-name string, a Closure object, or
\* another object.
StrC(name) == [kind |-> "string", name |-> name, val |-> UndefVal]
ClosureC(fn) == [kind |-> "closure", name |-> fn, val |-> UndefVal]
ObjectC(v) == [kind |-> "object", name |-> "", val |-> v]

(***************************************************************************)
(* HashTable helpers (zend_hash_find / update / del on string keys).       *)
(***************************************************************************)
EmptyHT == << >>
HtHas(ht, k) == k \in DOMAIN ht
HtUpdate(ht, k, v) == [x \in (DOMAIN ht) \cup {k} |-> IF x = k THEN v ELSE ht[x]]
HtDel(ht, k) == [x \in (DOMAIN ht) \ {k} |-> ht[x]]

(***************************************************************************)
(* The host's class table: what zend_lookup_class and the constructor's    *)
(* arg_info report.  A parameter is (name, type hint or NULL, nullable,    *)
(* has default, variadic).                                                 *)
(***************************************************************************)
Param(name, hint, nullable, hasDefault, variadic) ==
    [name |-> name, type_hint |-> hint, is_nullable |-> nullable,
     has_default |-> hasDefault, is_variadic |-> variadic]

Class(instantiable, params) ==
    [instantiable |-> instantiable, has_ctor |-> (Len(params) > 0), params |-> params,
     ctor_throws |-> FALSE]

ClassTable ==
    [n \in {"P", "Q", "A", "B", "S", "K1", "K2", "K3", "I", "ImplA", "X", "X:I",
            "W", "N", "Nd", "U", "O", "Boom", "Dec", "Any", "Wide"} |->
        CASE n = "P" -> Class(TRUE, <<>>)
          [] n = "Q" -> Class(TRUE, <<>>)
          [] n = "A" -> Class(TRUE, <<Param("b", "B", FALSE, FALSE, FALSE)>>)
          [] n = "B" -> Class(TRUE, <<Param("a", "A", FALSE, FALSE, FALSE)>>)
          [] n = "S" -> Class(TRUE, <<Param("s", "S", FALSE, FALSE, FALSE)>>)
          [] n = "K1" -> Class(TRUE, <<Param("k", "K2", FALSE, FALSE, FALSE)>>)
          [] n = "K2" -> Class(TRUE, <<Param("k", "K3", FALSE, FALSE, FALSE)>>)
          [] n = "K3" -> Class(TRUE, <<Param("k", "K1", FALSE, FALSE, FALSE)>>)
          [] n = "I" -> Class(FALSE, <<>>)
          [] n = "ImplA" -> Class(TRUE, <<>>)
          [] n = "X" -> Class(TRUE, <<Param("i", "I", FALSE, FALSE, FALSE)>>)
          [] n = "X:I" -> Class(TRUE, <<Param("q", "Q", FALSE, FALSE, FALSE)>>)
          [] n = "W" -> Class(TRUE, <<Param("t", "T", FALSE, FALSE, FALSE),
                                      Param("i", "I", FALSE, FALSE, FALSE)>>)
          [] n = "N" -> Class(TRUE, <<Param("i", "I", TRUE, FALSE, FALSE)>>)
          [] n = "Nd" -> Class(TRUE, <<Param("i", "I", FALSE, TRUE, FALSE)>>)
          [] n = "U" -> Class(TRUE, <<Param("x", NULL, FALSE, FALSE, FALSE)>>)
          [] n = "O" -> Class(TRUE, <<Param("x", "X", FALSE, FALSE, FALSE)>>)
          \* class Dec implements I { function __construct(I $inner) {} }
          [] n = "Dec" -> Class(TRUE, <<Param("inner", "I", FALSE, FALSE, FALSE)>>)
          \* class Boom { function __construct() { throw new Error; } }
          [] n = "Boom" -> [Class(TRUE, <<>>) EXCEPT !.has_ctor = TRUE,
                                                     !.ctor_throws = TRUE]
          \* the class whose constructor CompilerSpec declares
          [] n = "Any" -> [Class(TRUE, <<>>) EXCEPT !.has_ctor = TRUE]
          \* class Wide { function __construct(P $p1, ..., P $p8, svc $p9) {} }
          [] n = "Wide" ->
                 Class(TRUE, [i \in 1..9 |->
                                 Param(<<"p1", "p2", "p3", "p4", "p5", "p6", "p7",
                                         "p8", "p9">>[i],
                                       IF i = 9 THEN "svc" ELSE "P",
                                       FALSE, FALSE, FALSE)])]

zend_lookup_class(name) == name \in DOMAIN ClassTable

\* Closures the script binds as factories: what calling one does.
ClosureTable ==
    [f \in {"fresh", "throw", "rebind", "reflush", "uncompile"} |->
        CASE f = "fresh" -> [returns |-> "new", cls |-> "Made", calls |-> "none"]
          [] f = "throw" -> [returns |-> "throw", cls |-> "", calls |-> "none"]
          \* function ($c) { Container::bind('svc', 'P'); return new Made; }
          [] f = "rebind" -> [returns |-> "new", cls |-> "Made", calls |-> "bind"]
          \* function ($c) { Container::flush(); return new Made; }
          [] f = "reflush" -> [returns |-> "new", cls |-> "Made", calls |-> "flush"]
          \* function ($c) { Container::clearCompiled(); return new Made; }
          [] f = "uncompile" ->
                 [returns |-> "new", cls |-> "Made", calls |-> "clearCompiled"]]

(***************************************************************************)
(* String hashes.  A zend_ulong hash is kept as its two 32-bit words;      *)
(* `lo` stays below 2^31 in the values drawn.                              *)
(***************************************************************************)
IdSeq == <<"P", "Q", "A", "B", "S", "K1", "K2", "K3", "I", "ImplA", "X", "X:I",
           "I:Q", "svc", "n1", "n2", "n3", "n4", "Made",
           "T", "W", "N", "Nd", "U", "O", "Ghost", "Boom", "Dec", "Any", "Wide">>
AllIds == {IdSeq[i] : i \in 1..Len(IdSeq)}
IdIndex(n) == CHOOSE i \in 1..Len(IdSeq) : IdSeq[i] = n

\* hashes that fit 32 bits, and hashes of 2^32 and above
NarrowHash == [n \in AllIds |-> [hi |-> 0, lo |-> 37 * IdIndex(n) + 5]]
WideHash == [n \in AllIds |-> [hi |-> 1, lo |-> 37 * IdIndex(n) + 5]]
HashFns == {NarrowHash, WideHash}

ZSTR_H(key) == hashOf[key]

\* (uint32_t)h
Trunc32(h) == h.lo
\* a uint32_t compared with a zend_ulong: the uint32_t is zero-extended
EqU32U64(u, h) == h.hi = 0 /\ h.lo = u
\* SF_HASH_FINGERPRINT(h): the low 7 bits
HashFingerprint(h) == h.lo % 128
\* (h >> 7) % n, with h = hi * 2^32 + lo and 2^32 >> 7 = 2^25
HashGroup(h, n) == (((h.hi % n) * (33554432 % n)) + (h.lo \div 128)) % n

SetMin(S) == CHOOSE x \in S : \A y \in S : x <= y

(***************************************************************************)
(* Fast lookup table (src/src/fast_lookup.c).  Slot s of group g is entry  *)
(* g * GROUP_SIZE + s + 1 of the three arrays.                             *)
(***************************************************************************)
sf_fast_lookup_create(num_groups) ==
    LET n == IF num_groups = 0 \/ num_groups > MAX_GROUPS THEN 4 ELSE num_groups
    IN [num_groups |-> n, capacity |-> n * GROUP_SIZE, count |-> 0,
        ctrl |-> [s \in 1..(n * GROUP_SIZE) |-> CTRL_EMPTY],
        keys |-> [s \in 1..(n * GROUP_SIZE) |-> NULL],
        values |-> [s \in 1..(n * GROUP_SIZE) |-> UndefVal]]

\* the p-th slot (p = 0, 1, ...) visited when probing starts in group g
ProbeSlot(lookup, g, p) ==
    (((g + (p \div GROUP_SIZE)) % lookup.num_groups) * GROUP_SIZE) + (p % GROUP_SIZE) + 1

SlotHoldsKey(lookup, s, fingerprint, key) ==
    lookup.ctrl[s] = fingerprint /\ lookup.keys[s] # NULL /\ lookup.keys[s] = key

sf_fast_lookup_find(lookup, key) ==
    LET h == ZSTR_H(key)
        fingerprint == HashFingerprint(h)
        group_idx == HashGroup(h, lookup.num_groups)
        hits == {p \in 0..(lookup.capacity - 1) :
                    SlotHoldsKey(lookup, ProbeSlot(lookup, group_idx, p), fingerprint, key)}
    IN IF hits = {} THEN [found |-> FALSE, val |-> UndefVal]
       ELSE [found |-> TRUE,
             val |-> lookup.values[ProbeSlot(lookup, group_idx, SetMin(hits))]]

sf_fast_lookup_insert(lookup, key, value) ==
    LET h == ZSTR_H(key)
        fingerprint == HashFingerprint(h)
        group_idx == HashGroup(h, lookup.num_groups)
        \* a slot the loop stops at: "empty or deleted" as the code tests it,
        \* or the slot already holding the key
        stops == {p \in 0..(lookup.capacity - 1) :
                    LET s == ProbeSlot(lookup, group_idx, p)
                    IN lookup.ctrl[s] >= CTRL_DELETED
                       \/ SlotHoldsKey(lookup, s, fingerprint, key)}
        s == ProbeSlot(lookup, group_idx, SetMin(stops))
    IN IF lookup.count >= (lookup.capacity * 7) \div 8 THEN [ok |-> FALSE, lookup |-> lookup]
       ELSE IF stops = {} THEN [ok |-> FALSE, lookup |-> lookup]
       ELSE IF lookup.ctrl[s] >= CTRL_DELETED
            THEN [ok |-> TRUE,
                  lookup |-> [lookup EXCEPT !.ctrl[s] = fingerprint, !.keys[s] = key,
                                            !.values[s] = value, !.count = @ + 1]]
            ELSE [ok |-> TRUE, lookup |-> [lookup EXCEPT !.values[s] = value]]

sf_fast_lookup_remove(lookup, key) ==
    LET h == ZSTR_H(key)
        fingerprint == HashFingerprint(h)
        group_idx == HashGroup(h, lookup.num_groups)
        hits == {p \in 0..(lookup.capacity - 1) :
                    SlotHoldsKey(lookup, ProbeSlot(lookup, group_idx, p), fingerprint, key)}
        s == ProbeSlot(lookup, group_idx, SetMin(hits))
    IN IF hits = {} THEN lookup
       ELSE [lookup EXCEPT !.ctrl[s] = CTRL_DELETED, !.keys[s] = NULL,
                           !.values[s] = UndefVal, !.count = @ - 1]

sf_fast_lookup_clear(lookup) ==
    [lookup EXCEPT !.ctrl = [s \in DOMAIN lookup.ctrl |-> CTRL_EMPTY],
                   !.keys = [s \in DOMAIN lookup.keys |->
                                IF lookup.ctrl[s] < CTRL_EMPTY THEN NULL ELSE lookup.keys[s]],
                   !.values = [s \in DOMAIN lookup.values |->
                                IF lookup.ctrl[s] < CTRL_EMPTY THEN UndefVal
                                ELSE lookup.values[s]],
                   !.count = 0]

(***************************************************************************)
(* Resolution context (src/src/container.c).                               *)
(***************************************************************************)
sf_resolution_context_create ==
    [stack |-> <<>>, hashes |-> <<>>, capacity |-> ContextInitialCapacity]

CtxDepth(ctx) == Len(ctx.stack)

\* entries 1..blocks are scanned four at a time against (uint32_t)h, the
\* remaining ones one at a time against the whole zend_ulong h; without
\* SIMD every entry takes the scalar comparison
sf_resolution_context_has(ctx, abstract) ==
    LET h == ZSTR_H(abstract)
        depth == CtxDepth(ctx)
        blocks == IF sfHasSimd THEN 4 * (depth \div 4) ELSE 0
    IN /\ depth # 0
       /\ \/ \E i \in 1..blocks :
                ctx.hashes[i] = Trunc32(h) /\ ctx.stack[i] = abstract
          \/ \E i \in (blocks + 1)..depth :
                EqU32U64(ctx.hashes[i], h) /\ ctx.stack[i] = abstract

sf_resolution_context_push(ctx, abstract) ==
    IF sf_resolution_context_has(ctx, abstract) THEN [ok |-> FALSE, ctx |-> ctx]
    ELSE [ok |-> TRUE,
          ctx |-> [stack |-> Append(ctx.stack, abstract),
                   hashes |-> Append(ctx.hashes, Trunc32(ZSTR_H(abstract))),
                   capacity |-> IF CtxDepth(ctx) >= ctx.capacity
                                THEN ctx.capacity * 2 ELSE ctx.capacity]]

\* a pop that leaves the stack as it is
KeepContext(ctx) == ctx

sf_resolution_context_pop(ctx) ==
    IF CtxDepth(ctx) > 0
    THEN [ctx EXCEPT !.stack = SubSeq(@, 1, Len(@) - 1),
                     !.hashes = SubSeq(@, 1, Len(@) - 1)]
    ELSE ctx

(***************************************************************************)
(* The container and the executor state threaded through one public call.  *)
(* The fields from `exception` on are not part of struct _sf_container:    *)
(* EG(exception) with the chain its message lists, the object-handle       *)
(* allocator, the stack-exhaustion flag, and a record of how deep the      *)
(* call went.                                                              *)
(***************************************************************************)
(***************************************************************************)
(* Argument buffer pool (src/src/pool.c): one manager per process, its     *)
(* buffers and in_use flags in request memory (emalloc).  `stale` says the *)
(* request that allocated them has ended; in_use counts the buffers handed *)
(* out, the first free one being the one acquired.                         *)
(***************************************************************************)
POOL_SIZE_8 == 4
POOL_SIZE_16 == 2
POOL_SIZE_32 == 1

PoolCapacity ==
    [pool_8 |-> POOL_SIZE_8, pool_16 |-> POOL_SIZE_16, pool_32 |-> POOL_SIZE_32]
PoolBufferSize == [pool_8 |-> 8, pool_16 |-> 16, pool_32 |-> 32]

sf_pool_init ==
    [initialized |-> FALSE, stale |-> FALSE,
     in_use |-> [pool_8 |-> 0, pool_16 |-> 0, pool_32 |-> 0]]

\* the size classes of sf_pool_acquire and sf_pool_release
PoolFor(size) ==
    IF size <= 8 THEN "pool_8"
    ELSE IF size <= 16 THEN "pool_16"
    ELSE IF size <= 32 THEN "pool_32"
    ELSE "none"

sf_container_create ==
    [bindings |-> EmptyHT,
     instances |-> EmptyHT,
     fast_cache |-> sf_fast_lookup_create(FastCacheGroups),
     reflection_cache |-> EmptyHT,
     aliases |-> EmptyHT,
     tags |-> EmptyHT,
     contextual_bindings |-> EmptyHT,
     compiled_factories |-> EmptyHT,
     context |-> sf_resolution_context_create,
     compilation_enabled |-> FALSE,
     cache_loaded |-> FALSE,
     cache_dirty |-> FALSE,
     exception |-> "none",
     chain |-> <<>>,
     next_handle |-> 1,
     overflow |-> FALSE,
     max_frames |-> 0,
     max_ctx |-> <<>>,
     raise_ctx |-> <<>>,
     first_exception |-> "none",
     held |-> <<>>,
     freed_held |-> {},
     allocator |-> "old",
     pool |-> sf_pool_init,
     buffers |-> <<>>,
     scratch |-> {},
     built |-> 0,
     released |-> 0,
     orphans |-> {}]

Max(a, b) == IF a >= b THEN a ELSE b

\* zend_throw_exception(kind)
Throw(m, kind) ==
    [m EXCEPT !.exception = kind,
              !.first_exception = IF @ = "none" THEN kind ELSE @]

Fail(m) == [m |-> m, ok |-> FALSE, val |-> UndefVal]
Ok(m, v) == [m |-> m, ok |-> TRUE, val |-> v]

\* the process dies on an access to freed memory
Crash(m) == Fail([m EXCEPT !.overflow = TRUE, !.exception = "Segfault"])

\* entering one more C frame of the resolution recursion with `fuel` left
Enter(m, fuel) == [m EXCEPT !.max_frames = Max(@, (MaxDepth - fuel) + 1)]
\* the C stack is exhausted: the process dies here
StackExhausted(m) ==
    Fail([m EXCEPT !.overflow = TRUE, !.exception = "StackOverflow"])

(***************************************************************************)
(* Alias resolution, bindings, contextual bindings (src/src/container.c,   *)
(* src/src/binding.c).                                                     *)
(***************************************************************************)
\* an alias map consulted once only: what resolution would be without the loop
AliasOneHop(aliases, abstract, depth) ==
    IF HtHas(aliases, abstract) THEN aliases[abstract] ELSE abstract

\* a container that ignores its alias map
NoAliasResolution(c, abstract) == abstract

RECURSIVE AliasLoop(_, _, _)
AliasLoop(aliases, abstract, depth) ==
    IF HtHas(aliases, abstract) /\ depth < AliasHopLimit
    THEN AliasLoop(aliases, aliases[abstract], depth + 1)
    ELSE abstract

sf_resolve_alias(c, abstract) == AliasLoop(c.aliases, abstract, 0)

sf_binding_create(abstract, concrete, scope) ==
    [abstract |-> abstract, concrete |-> concrete, scope |-> scope,
     resolved |-> FALSE, instance |-> UndefVal, refcount |-> 1]

\* Records are reached through pointers.  `held` lists the records a running
\* resolution frame holds a pointer to, as <<kind, key>>, innermost last;
\* `freed_held` collects those destroyed while held.  sf_binding_release and
\* sf_factory_release destroy a record whose count drops to 0, and no frame
\* ever adds a reference.
HeldRecords(c, kind) ==
    {c.held[i][2] : i \in {j \in 1..Len(c.held) : c.held[j][1] = kind}}

Destroyed(c, kind, keys) ==
    [c EXCEPT !.freed_held = @ \cup {<<kind, k>> : k \in keys \cap HeldRecords(c, kind)}]

\* the factory records in the table, by the class they construct
FactoryClasses(c) ==
    {c.compiled_factories[k].class_name : k \in DOMAIN c.compiled_factories}

Hold(c, kind, key) == [c EXCEPT !.held = Append(@, <<kind, key>>)]
Unhold(c) == [c EXCEPT !.held = SubSeq(@, 1, Len(@) - 1)]

sf_container_bind(c, abstract0, concrete, scope) ==
    LET abstract == sf_resolve_alias(c, abstract0)
    IN [Destroyed(c, "binding", IF HtHas(c.bindings, abstract) THEN {abstract} ELSE {})
          EXCEPT !.bindings = HtUpdate(@, abstract,
                                       sf_binding_create(abstract, concrete, scope))]

sf_cache_clear(ht) == EmptyHT

\* the metadata records the sf_class_meta_release calls of sf_cache_clear do
\* not destroy: those whose count stays above zero
LeftAlive(ht) ==
    {[ht[k] EXCEPT !.refcount = @ - 1] : k \in {x \in DOMAIN ht : ht[x].refcount > 1}}

\* a flush that drops the bindings and nothing else
FlushBindings(c) == [c EXCEPT !.bindings = EmptyHT]

sf_container_flush(c) ==
    [Destroyed(Destroyed(c, "binding", DOMAIN c.bindings),
               "factory", FactoryClasses(c))
       EXCEPT !.bindings = EmptyHT,
              !.contextual_bindings = EmptyHT,
              !.compiled_factories = EmptyHT,
              !.compilation_enabled = FALSE,
              !.instances = EmptyHT,
              !.fast_cache = sf_fast_lookup_clear(@),
              !.aliases = EmptyHT,
              !.tags = EmptyHT,
              !.reflection_cache = sf_cache_clear(@),
              !.orphans = @ \cup LeftAlive(c.reflection_cache)]

sf_container_clear_compiled(c) ==
    [Destroyed(c, "factory", FactoryClasses(c))
       EXCEPT !.compiled_factories = EmptyHT, !.compilation_enabled = FALSE]

\* sf_do_bind: an omitted (or null) concrete binds the abstract to itself
NullConcrete == [kind |-> "null", name |-> "", val |-> UndefVal]

sf_do_bind(c, abstract, concrete, scope) ==
    sf_container_bind(c, abstract,
                      IF concrete = NullConcrete THEN StrC(abstract) ELSE concrete,
                      scope)


\* the body of the Closure objects the script passes to instance()
InstanceClosure == "fresh"

\* an object zval as a binding's concrete: sf_resolve_concrete takes an
\* instance of Closure for a factory, any other object for a value
ZvalConcrete(v) ==
    IF v.cls = "Closure"
    THEN [kind |-> "closure", name |-> InstanceClosure, val |-> v]
    ELSE ObjectC(v)

sf_container_instance(c, abstract0, instance) ==
    LET abstract == sf_resolve_alias(c, abstract0)
        c1 == [c EXCEPT !.instances = HtUpdate(@, abstract, instance),
                        !.fast_cache = sf_fast_lookup_insert(@, abstract, instance).lookup,
                        !.cache_dirty = TRUE]
    IN sf_container_bind(c1, abstract, ZvalConcrete(instance), SCOPE_INSTANCE)

sf_container_alias(c, abstract, alias) ==
    [c EXCEPT !.aliases = HtUpdate(@, alias, abstract)]

\* the composite key: concrete, ':', abstract appended to one string
ContextualKey(concrete, abstract) == (concrete \o ":") \o abstract

sf_container_get_contextual_binding(c, concrete, abstract) ==
    IF concrete = NULL THEN [found |-> FALSE, implementation |-> StrC("")]
    ELSE IF HtHas(c.contextual_bindings, ContextualKey(concrete, abstract))
    THEN [found |-> TRUE,
          implementation |->
              c.contextual_bindings[ContextualKey(concrete, abstract)].implementation]
    ELSE [found |-> FALSE, implementation |-> StrC("")]

sf_contextual_binding_create(concrete, abstract, impl) ==
    [concrete |-> concrete, abstract |-> abstract, implementation |-> impl, refcount |-> 1]

sf_container_add_contextual_binding(c, concrete, abstract, impl) ==
    [c EXCEPT !.contextual_bindings =
        HtUpdate(@, ContextualKey(concrete, abstract),
                 sf_contextual_binding_create(concrete, abstract, impl))]

(***************************************************************************)
(* Reflection cache (src/src/reflection_cache.c) and factory compiler      *)
(* (src/src/compiler.c, src/src/factory.c).                                *)
(***************************************************************************)
sf_cache_build(class_name) ==
    LET ce == ClassTable[class_name]
    IN IF ~ce.instantiable
       THEN [class_name |-> class_name, params |-> <<>>, param_count |-> 0,
             is_instantiable |-> FALSE, refcount |-> 1]
       ELSE [class_name |-> class_name, params |-> ce.params,
             param_count |-> Len(ce.params), is_instantiable |-> TRUE, refcount |-> 1]

\* sf_cache_get, and on a miss sf_cache_build followed by sf_cache_put
\* (the cache takes a reference; zend_hash_add_ptr)
CacheGetOrBuild(c, class_name) ==
    IF HtHas(c.reflection_cache, class_name) THEN c
    ELSE [c EXCEPT !.reflection_cache =
            HtUpdate(@, class_name,
                     [sf_cache_build(class_name) EXCEPT !.refcount = @ + 1])]

sf_compiler_can_compile(meta) ==
    /\ meta.is_instantiable
    /\ meta.param_count <= MAX_COMPILED_DEPS
    /\ \A i \in 1..meta.param_count :
          meta.params[i].type_hint = NULL => meta.params[i].has_default

\* a dependency count that takes every type-hinted parameter from i on
AllHinted(params, i) ==
    (i - 1) + Cardinality({j \in i..Len(params) : params[j].type_hint # NULL})

\* number of leading type-hinted parameters
RECURSIVE LeadingHinted(_, _)
LeadingHinted(params, i) ==
    IF i > Len(params) \/ params[i].type_hint = NULL THEN i - 1
    ELSE LeadingHinted(params, i + 1)

NoFactory == [class_name |-> NULL, dep_names |-> <<>>, dep_count |-> 0,
              is_singleton |-> FALSE, has_constructor |-> FALSE]

sf_compiler_compile_class(meta, is_singleton) ==
    IF ~sf_compiler_can_compile(meta) THEN NoFactory
    ELSE LET dep_count == LeadingHinted(meta.params, 1)
         IN [class_name |-> meta.class_name,
             dep_names |-> [i \in 1..dep_count |-> meta.params[i].type_hint],
             dep_count |-> dep_count,
             is_singleton |-> is_singleton,
             has_constructor |-> ClassTable[meta.class_name].has_ctor]

(***************************************************************************)
(* Resolution: sf_container_make and everything it calls.  Every operator  *)
(* takes the container/executor record and returns                         *)
(* [m |-> the record afterwards, ok |-> SUCCESS?, val |-> the result zval].*)
(* sf_container_make and sf_factory_call are the frames of the recursion;  *)
(* `fuel` is the number of frames the C stack still has room for.          *)
(***************************************************************************)
RECURSIVE sf_container_make(_, _, _, _, _)
RECURSIVE MakeResolved(_, _, _, _, _, _)
RECURSIVE sf_resolve_concrete(_, _, _, _, _, _)
RECURSIVE sf_autowire_resolve(_, _, _, _)
RECURSIVE Autowired(_, _, _, _, _)
RECURSIVE sf_autowire_build_args_direct(_, _, _, _, _, _, _)
RECURSIVE ArgResolved(_, _, _, _, _, _, _)
RECURSIVE sf_factory_call(_, _, _, _)
RECURSIVE FactoryDeps(_, _, _, _, _)
RECURSIVE DepResolved(_, _, _, _, _)
RECURSIVE sf_resolve_dep_fast(_, _, _)

BuiltArgs(m, args) == [m |-> m, count |-> Len(args), args |-> args]
NoArgs(m) == [m |-> m, count |-> -1, args |-> <<>>]

\* a scratch buffer for constructor arguments: where it comes from, the
\* zvals it has room for, the parameter count it was asked for, the zvals
\* written to it
Buffer(source, capacity, declared) ==
    [source |-> source, capacity |-> capacity, declared |-> declared, written |-> 0]

PooledSources == {"pool", "freed", "clobbered"}

\* sf_pool_acquire for more than 8 parameters, with the emalloc fallback.
\* A stale pool is read from memory the ended request freed: the flags
\* read as they were left ("old"), as non-zero ("busy"), or the block now
\* belongs to a later allocation ("reused").
PoolBuffer(m, size) ==
    IF PoolFor(size) = "none" THEN Buffer("heap", size, size)
    ELSE IF m.pool.stale
    THEN (IF m.allocator = "busy" THEN Buffer("heap", size, size)
          ELSE IF m.allocator = "reused" THEN Buffer("clobbered", 0, size)
          ELSE Buffer("freed", 0, size))
    ELSE IF m.pool.in_use[PoolFor(size)] >= PoolCapacity[PoolFor(size)]
    THEN Buffer("heap", size, size)
    ELSE Buffer("pool", PoolBufferSize[PoolFor(size)], size)

\* args_stack, a pool buffer or a heap block
ArgsBuffer(m, param_count) ==
    IF param_count > 8 THEN PoolBuffer(m, param_count)
    ELSE Buffer("stack", 8, param_count)

\* the read of freed pool memory faults
AcquireFaults(m, param_count) ==
    /\ param_count > 8
    /\ PoolFor(param_count) # "none"
    /\ m.pool.stale
    /\ m.allocator = "crash"

AcquireArgs(m, param_count) ==
    [m EXCEPT !.buffers = Append(@, ArgsBuffer(m, param_count)),
              !.pool = IF param_count <= 8 THEN @
                       ELSE [@ EXCEPT
                           !.initialized = TRUE,
                           !.in_use = IF ArgsBuffer(m, param_count).source \in PooledSources
                                      THEN [@ EXCEPT ![PoolFor(param_count)] = @ + 1]
                                      ELSE @]]

\* sf_pool_release or efree of the frame's buffer
ReleaseArgs(m) ==
    [m EXCEPT !.buffers = SubSeq(@, 1, Len(@) - 1),
              !.scratch = @ \cup {m.buffers[Len(m.buffers)]},
              !.pool = IF m.buffers[Len(m.buffers)].source \in PooledSources
                       THEN [@ EXCEPT !.in_use[PoolFor(m.buffers[Len(m.buffers)].declared)]
                                          = @ - 1]
                       ELSE @]

\* one more argument written to the frame's buffer
ArgBuilt(m) ==
    [m EXCEPT !.built = @ + 1, !.buffers[Len(m.buffers)].written = @ + 1]

\* the zval_ptr_dtor loop over the first n arguments of the frame's buffer;
\* in a block that was handed to a later allocation the zvals are no
\* longer the ones written
DtorArgs(m, n) ==
    IF m.buffers[Len(m.buffers)].source = "clobbered" THEN m
    ELSE [m EXCEPT !.released = @ + n]

\* a parameter loop that stops at any parameter it has no type hint for
StopWhenUnhinted(p, params) ==
    IF HtHas(params, p.name) THEN "provided"
    ELSE IF p.type_hint # NULL THEN "hinted"
    ELSE "stop"

\* what the parameter loop does with parameter p before resolving anything,
\* in the order the code tests it
ParamStep(p, params) ==
    IF HtHas(params, p.name) THEN "provided"
    ELSE IF p.type_hint # NULL THEN "hinted"
    ELSE IF p.has_default \/ p.is_variadic THEN "stop"
    ELSE "unresolvable"

\* the parameter loop from index i on, `args` being the arguments built so far
sf_autowire_build_args_direct(m, meta, params, requester, i, args, fuel) ==
    IF i > meta.param_count THEN BuiltArgs(m, args)
    ELSE CASE ParamStep(meta.params[i], params) = "provided" ->
                  sf_autowire_build_args_direct(ArgBuilt(m), meta, params, requester,
                      i + 1, Append(args, params[meta.params[i].name]), fuel)
           [] ParamStep(meta.params[i], params) = "hinted" ->
                  ArgResolved(sf_container_make(m, meta.params[i].type_hint, EmptyHT,
                                                requester, fuel - 1),
                              meta, params, requester, i, args, fuel)
           [] ParamStep(meta.params[i], params) = "stop" -> BuiltArgs(m, args)
           [] OTHER -> NoArgs(Throw(DtorArgs(m, Len(args)), "NotFound"))

\* the loop body after sf_container_make returned r for the type hint of parameter i
ArgResolved(r, meta, params, requester, i, args, fuel) ==
    IF r.ok
    THEN sf_autowire_build_args_direct(ArgBuilt(r.m), meta, params, requester, i + 1,
                                       Append(args, r.val), fuel)
    ELSE IF r.m.exception # "none" THEN NoArgs(DtorArgs(r.m, Len(args)))
    ELSE IF meta.params[i].is_nullable
    THEN sf_autowire_build_args_direct(ArgBuilt(r.m), meta, params, requester, i + 1,
                                       Append(args, NullVal), fuel)
    ELSE IF meta.params[i].has_default THEN BuiltArgs(r.m, args)
    ELSE NoArgs(Throw(DtorArgs(r.m, Len(args)), "NotFound"))

\* zend_call_function on the constructor: SUCCESS even when the constructor threw
CallConstructor(m, class_name) ==
    IF ClassTable[class_name].has_ctor /\ ClassTable[class_name].ctor_throws
    THEN Throw(m, "Error")
    ELSE m

\* the opportunistic compilation at the end of sf_autowire_resolve
JitCompile(m, class_name) ==
    IF /\ m.compilation_enabled
       /\ ~HtHas(m.compiled_factories, class_name)
       /\ sf_compiler_compile_class(m.reflection_cache[class_name], FALSE) # NoFactory
    THEN [m EXCEPT !.compiled_factories =
             HtUpdate(@, class_name,
                      sf_compiler_compile_class(m.reflection_cache[class_name], FALSE))]
    ELSE m

\* sf_autowire_resolve once the arguments b are built: create, construct, compile
Construct(b, class_name) ==
    IF b.count < 0 THEN Fail(ReleaseArgs(b.m))
    ELSE Ok(JitCompile(ReleaseArgs(DtorArgs(
                           CallConstructor([b.m EXCEPT !.next_handle = @ + 1], class_name),
                           b.count)),
                       class_name),
            ObjVal(class_name, b.m.next_handle,
                   IF ClassTable[class_name].has_ctor THEN b.args ELSE <<>>))

\* the checks of sf_autowire_resolve that come before the arguments are built
AutowireRefuses(m, class_name) ==
    IF ~zend_lookup_class(class_name) THEN TRUE
    ELSE IF ~ClassTable[class_name].instantiable THEN TRUE
    ELSE ~CacheGetOrBuild(m, class_name).reflection_cache[class_name].is_instantiable

\* the container a refused sf_autowire_resolve leaves: the metadata lookup has
\* happened only when the class exists and can be instantiated
AutowireRefused(m, class_name) ==
    IF zend_lookup_class(class_name) /\ ClassTable[class_name].instantiable
    THEN Throw(CacheGetOrBuild(m, class_name), "NotFound")
    ELSE Throw(m, "NotFound")

\* sf_autowire_resolve from the choice of the argument buffer on, m holding
\* the metadata
Autowired(m, meta, class_name, params, fuel) ==
    IF AcquireFaults(m, meta.param_count) THEN Crash(m)
    ELSE Construct(sf_autowire_build_args_direct(
                       AcquireArgs(m, meta.param_count), meta,
                       params, class_name, 1, <<>>, fuel),
                   class_name)

sf_autowire_resolve(m, class_name, params, fuel) ==
    IF AutowireRefuses(m, class_name) THEN Fail(AutowireRefused(m, class_name))
    ELSE Autowired(CacheGetOrBuild(m, class_name),
                   CacheGetOrBuild(m, class_name).reflection_cache[class_name],
                   class_name, params, fuel)

\* the call the closure's body makes on the container it runs in
ReentrantCall(m, calls) ==
    CASE calls = "bind" -> sf_do_bind(m, "svc", StrC("P"), SCOPE_TRANSIENT)
      [] calls = "flush" -> sf_container_flush(m)
      [] calls = "clearCompiled" -> sf_container_clear_compiled(m)
      [] OTHER -> m

\* zend_call_function on a closure that returns a new object
ClosureReturns(m, closure) ==
    Ok([m EXCEPT !.next_handle = @ + 1], ObjVal(closure.cls, m.next_handle, <<>>))

sf_resolve_concrete(m, abstract, concrete, params, requester, fuel) ==
    CASE concrete.kind = "closure" ->
             IF ClosureTable[concrete.name].returns = "throw"
             \* zend_call_function reports SUCCESS; the result stays undefined
             THEN [m |-> Throw(m, "Error"), ok |-> TRUE, val |-> UndefVal]
             ELSE ClosureReturns(ReentrantCall(m, ClosureTable[concrete.name].calls),
                                 ClosureTable[concrete.name])
      [] concrete.kind = "string" ->
             sf_autowire_resolve(m, concrete.name, params, fuel)
      [] OTHER -> Ok(m, concrete.val)

\* where sf_resolve_dep_fast finds the dependency, in the order the code looks
DepSource(m, dep_name) ==
    IF HtHas(m.instances, dep_name) THEN "instances"
    ELSE IF HtHas(m.compiled_factories, dep_name) THEN "factory"
    ELSE "make"

sf_resolve_dep_fast(m, dep_name, fuel) ==
    CASE DepSource(m, dep_name) = "instances" -> Ok(m, m.instances[dep_name])
      [] DepSource(m, dep_name) = "factory" ->
             sf_factory_call(m, m.compiled_factories[dep_name], EmptyHT, fuel - 1)
      [] OTHER -> sf_container_make(m, dep_name, EmptyHT, NULL, fuel - 1)

\* the dependencies of a compiled factory from index i on, in order
FactoryDeps(m, factory, i, deps, fuel) ==
    IF i > factory.dep_count THEN [m |-> m, ok |-> TRUE, deps |-> deps]
    ELSE DepResolved(sf_resolve_dep_fast(m, factory.dep_names[i], fuel),
                     factory, i, deps, fuel)

DepResolved(r, factory, i, deps, fuel) ==
    IF r.ok THEN FactoryDeps(r.m, factory, i + 1, Append(deps, r.val), fuel)
    ELSE [m |-> r.m, ok |-> FALSE, deps |-> <<>>]


\* a scope or singleton flag read from a destroyed record: what the block
\* held before (`old` is that value), or what the allocator put there since
FreedRead(m, old, singleton) ==
    CASE m.allocator = "singleton" -> singleton
      [] m.allocator = "transient" -> SCOPE_TRANSIENT
      [] OTHER -> old

\* the factory as the template reads it once the dependencies are resolved:
\* from freed memory when the record was destroyed meanwhile
FactoryAsRead(m, factory) ==
    IF <<"factory", factory.class_name>> \in m.freed_held
    THEN [factory EXCEPT !.is_singleton = (FreedRead(m, IF @ THEN 1 ELSE 0, 1) = 1)]
    ELSE factory

\* a factory template once its dependencies d are resolved
FactoryConstruct(d, factory) ==
    IF ~d.ok THEN Fail(d.m)
    ELSE IF /\ factory.has_constructor
            /\ ClassTable[factory.class_name].ctor_throws
    THEN Fail(Throw([d.m EXCEPT !.next_handle = @ + 1], "Error"))
    ELSE IF factory.has_constructor /\ d.m.exception # "none"
    THEN Fail([d.m EXCEPT !.next_handle = @ + 1])
    ELSE Ok([d.m EXCEPT
                !.next_handle = @ + 1,
                !.instances =
                    IF factory.is_singleton
                    THEN HtUpdate(@, factory.class_name,
                                  ObjVal(factory.class_name, d.m.next_handle,
                                         IF factory.has_constructor THEN d.deps ELSE <<>>))
                    ELSE @],
            ObjVal(factory.class_name, d.m.next_handle,
                   IF factory.has_constructor THEN d.deps ELSE <<>>))

\* the template stops using its factory pointer when it returns; a factory
\* destroyed meanwhile is read from freed memory
FactoryReturns(d, factory) ==
    IF d.ok /\ <<"factory", factory.class_name>> \in d.m.freed_held
            /\ d.m.allocator = "crash"
    THEN Crash(d.m)
    ELSE FactoryConstruct(d, FactoryAsRead(d.m, factory))

FactoryUnheld(d, factory) == FactoryReturns([d EXCEPT !.m = Unhold(@)], factory)

\* factory->factory_fn: factory_template_0deps / _1dep / _2deps / _ndeps
sf_factory_call(m, factory, params, fuel) ==
    IF fuel = 0 THEN StackExhausted(m)
    ELSE FactoryUnheld(FactoryDeps(Hold(Enter(m, fuel), "factory", factory.class_name),
                                   factory, 1, <<>>, fuel),
                       factory)

\* a Singleton branch that remembers nothing
CacheNothing(m, abstract, result) == m

\* the Singleton branch of sf_container_make: remember the result
CacheSingleton(m, abstract, result) ==
    [m EXCEPT !.instances = HtUpdate(@, abstract, result),
              !.fast_cache = sf_fast_lookup_insert(@, abstract, result).lookup,
              !.cache_dirty = TRUE,
              !.bindings = IF HtHas(@, abstract)
                           THEN [@ EXCEPT ![abstract].resolved = TRUE]
                           ELSE @]

\* sf_resolution_context_pop before sf_container_make returns r
Popped(r) == [r EXCEPT !.m.context = sf_resolution_context_pop(@)]

\* sf_container_make after the binding's concrete resolved to r: a successful
\* Singleton is remembered, and the context is popped either way
AfterLiveBinding(r, scope, abstract) ==
    [r EXCEPT !.m = [(IF r.ok /\ scope = SCOPE_SINGLETON
                      THEN CacheSingleton(@, abstract, r.val)
                      ELSE @)
                     EXCEPT !.context = sf_resolution_context_pop(@)]]

\* the Singleton branch when the binding record is destroyed: the write of
\* resolved goes to the freed block, not to the record now in the table
CacheDangling(m, abstract, result) ==
    [CacheSingleton(m, abstract, result) EXCEPT !.bindings = m.bindings]

\* the same lines when the frame's binding record was destroyed during the
\* call: binding->scope is read from freed memory
AfterFreedBinding(r, scope, abstract) ==
    IF ~r.ok THEN [r EXCEPT !.m.context = sf_resolution_context_pop(@)]
    ELSE IF r.m.allocator = "crash" THEN Crash(r.m)
    ELSE [r EXCEPT !.m = [(IF FreedRead(r.m, scope, SCOPE_SINGLETON) = SCOPE_SINGLETON
                           THEN CacheDangling(@, abstract, r.val)
                           ELSE @)
                          EXCEPT !.context = sf_resolution_context_pop(@)]]

AfterUnheld(r, scope, abstract) ==
    IF <<"binding", abstract>> \in r.m.freed_held
    THEN AfterFreedBinding(r, scope, abstract)
    ELSE AfterLiveBinding(r, scope, abstract)

\* the frame stops using its binding pointer when it returns
AfterBinding(r, scope, abstract) ==
    AfterUnheld([r EXCEPT !.m = Unhold(@)], scope, abstract)

\* a make that looks up no contextual binding
NoContextual(m, requester, abstract) == [found |-> FALSE, implementation |-> StrC("")]

\* the contextual lookup of sf_container_make: made only for a requester and
\* only when some contextual binding exists
ContextualFor(m, requester, abstract) ==
    IF requester # NULL /\ DOMAIN m.contextual_bindings # {}
    THEN sf_container_get_contextual_binding(m, requester, abstract)
    ELSE [found |-> FALSE, implementation |-> StrC("")]

\* the branch sf_container_make takes for abstract, in the order the code
\* tests: the two caches, the compiled factory, the cycle check of the push,
\* the contextual binding, the binding, autowiring
MakeBranch(m, abstract, requester) ==
    IF sf_fast_lookup_find(m.fast_cache, abstract).found THEN "fast_cache"
    ELSE IF HtHas(m.instances, abstract) THEN "instances"
    ELSE IF /\ m.compilation_enabled
            /\ requester = NULL
            /\ HtHas(m.compiled_factories, abstract)
    THEN "factory"
    ELSE IF ~sf_resolution_context_push(m.context, abstract).ok THEN "circular"
    ELSE IF ContextualFor(m, requester, abstract).found THEN "contextual"
    ELSE IF ~HtHas(m.bindings, abstract) THEN "autowire"
    ELSE IF /\ m.bindings[abstract].scope = SCOPE_INSTANCE
            /\ m.bindings[abstract].instance.kind # "undef"
    THEN "stored_instance"
    ELSE "binding"

\* the container once sf_resolution_context_push has put abstract on the stack
Pushed(m, abstract) ==
    [m EXCEPT !.context = sf_resolution_context_push(@, abstract).ctx,
              !.max_ctx = IF Len(m.context.stack) + 1 > Len(@)
                          THEN Append(m.context.stack, abstract) ELSE @]

\* a message that names the rejected abstract alone
RejectedOnly(ctx, abstract) == <<abstract>>

\* the names the CircularDependency message lists: stack[0..depth-1], then
\* the abstract whose push was refused
CycleChain(ctx, abstract) == Append(ctx.stack, abstract)

\* sf_container_make once the alias is resolved and the branch is known
MakeResolved(m, abstract, branch, params, requester, fuel) ==
    CASE branch = "fast_cache" ->
             Ok(m, sf_fast_lookup_find(m.fast_cache, abstract).val)
      [] branch = "instances" -> Ok(m, m.instances[abstract])
      [] branch = "factory" ->
             sf_factory_call(m, m.compiled_factories[abstract], params, fuel - 1)
      [] branch = "circular" ->
             Fail(Throw([m EXCEPT !.chain = CycleChain(m.context, abstract),
                                  !.raise_ctx = m.context.stack],
                        "CircularDependency"))
      [] branch = "contextual" ->
             Popped(sf_resolve_concrete(
                        Pushed(m, abstract), abstract,
                        ContextualFor(m, requester, abstract).implementation,
                        params, requester, fuel))
      [] branch = "autowire" ->
             Popped(sf_autowire_resolve(Pushed(m, abstract), abstract, params, fuel))
      [] branch = "stored_instance" ->
             Popped(Ok(Pushed(m, abstract), m.bindings[abstract].instance))
      [] OTHER ->
             AfterBinding(sf_resolve_concrete(Hold(Pushed(m, abstract), "binding", abstract),
                                              abstract,
                                              m.bindings[abstract].concrete,
                                              params, requester, fuel),
                          m.bindings[abstract].scope, abstract)

sf_container_make(m, abstract0, params, requester, fuel) ==
    IF fuel = 0 THEN StackExhausted(m)
    ELSE MakeResolved(Enter([m EXCEPT !.cache_loaded = TRUE], fuel),
                      sf_resolve_alias(m, abstract0),
                      MakeBranch(m, sf_resolve_alias(m, abstract0), requester),
                      params, requester, fuel)

\* an array item that is not a string
NotAString == "<non-string>"
IsString(item) == item # NotAString

\* a PHP array of values
ArrayVal(items) == [kind |-> "array", cls |-> "", id |-> 0, args |-> items]

\* the loop of sf_container_tagged from item i on: each string item is made
\* with no parameters and no requester, a made value is appended to result
RECURSIVE TaggedLoop(_, _, _, _)
RECURSIVE TaggedItem(_, _, _, _)
TaggedLoop(m, items, i, result) ==
    IF i > Len(items) THEN Ok(m, ArrayVal(result))
    ELSE IF ~IsString(items[i]) THEN TaggedLoop(m, items, i + 1, result)
    ELSE TaggedItem(sf_container_make(m, items[i], EmptyHT, NULL, MaxDepth - 1),
                    items, i, result)
TaggedItem(r, items, i, result) ==
    TaggedLoop(r.m, items, i + 1, IF r.ok THEN Append(result, r.val) ELSE result)

sf_container_tagged(c, tag) ==
    IF ~HtHas(c.tags, tag) THEN Ok(c, ArrayVal(<<>>))
    ELSE TaggedLoop(c, c.tags[tag], 1, <<>>)

(***************************************************************************)
(* Queries, lifecycle and compilation (src/src/container.c,                *)
(* src/src/compiler.c).                                                    *)
(***************************************************************************)
sf_container_has(c, abstract0) ==
    LET abstract == sf_resolve_alias(c, abstract0)
    IN \/ HtHas(c.bindings, abstract)
       \/ (zend_lookup_class(abstract) /\ ClassTable[abstract].instantiable)

sf_container_bound(c, abstract0) ==
    HtHas(c.bindings, sf_resolve_alias(c, abstract0))

sf_container_resolved(c, abstract0) ==
    LET abstract == sf_resolve_alias(c, abstract0)
    IN \/ HtHas(c.instances, abstract)
       \/ (HtHas(c.bindings, abstract) /\ c.bindings[abstract].resolved)

\* a tag call that stores its own items in place of the tag's list
TagReplaces(c, abstracts, tag) ==
    [c EXCEPT !.tags = HtUpdate(@, tag, SelectSeq(abstracts, IsString))]

\* the tag's array is found or created, every string item is appended
sf_container_tag(c, abstracts, tag) ==
    [c EXCEPT !.tags =
        HtUpdate(@, tag, (IF HtHas(@, tag) THEN @[tag] ELSE <<>>)
                            \o SelectSeq(abstracts, IsString))]

\* a forgetInstance that leaves the container as it is
ForgetNothing(c, abstract0) == c

sf_container_forget_instance(c, abstract0) ==
    LET abstract == sf_resolve_alias(c, abstract0)
    IN [c EXCEPT !.instances = HtDel(@, abstract),
                 !.fast_cache = sf_fast_lookup_remove(@, abstract),
                 !.bindings = IF HtHas(@, abstract)
                              THEN [@ EXCEPT ![abstract].resolved = FALSE]
                              ELSE @]

sf_container_forget_instances(c) ==
    [c EXCEPT !.instances = EmptyHT,
              !.fast_cache = sf_fast_lookup_clear(@),
              !.bindings = [k \in DOMAIN @ |-> [@[k] EXCEPT !.resolved = FALSE]]]

\* a compile() that passes over the Singleton bindings
NoSingletons(c) ==
    {a \in DOMAIN c.bindings :
        /\ c.bindings[a].concrete.kind = "string"
        /\ c.bindings[a].scope = SCOPE_TRANSIENT
        /\ zend_lookup_class(c.bindings[a].concrete.name)
        /\ sf_cache_build(c.bindings[a].concrete.name).is_instantiable
        /\ sf_compiler_can_compile(sf_cache_build(c.bindings[a].concrete.name))}

\* the bindings sf_compiler_compile_all compiles a factory for
CompilableBindings(c) ==
    {a \in DOMAIN c.bindings :
        /\ c.bindings[a].concrete.kind = "string"
        /\ c.bindings[a].scope # SCOPE_INSTANCE
        /\ zend_lookup_class(c.bindings[a].concrete.name)
        /\ sf_cache_build(c.bindings[a].concrete.name).is_instantiable
        /\ sf_compiler_can_compile(sf_cache_build(c.bindings[a].concrete.name))}

\* the classes whose metadata the loop looks up (and builds on a miss)
CompileLookups(c) ==
    {c.bindings[a].concrete.name : a \in
        {b \in DOMAIN c.bindings :
            /\ c.bindings[b].concrete.kind = "string"
            /\ c.bindings[b].scope # SCOPE_INSTANCE
            /\ zend_lookup_class(c.bindings[b].concrete.name)}}

sf_compiler_compile_all(c) ==
    LET names == CompileLookups(c)
        compiled == CompilableBindings(c)
        rc == [k \in (DOMAIN c.reflection_cache) \cup names |->
                 IF HtHas(c.reflection_cache, k) THEN c.reflection_cache[k]
                 ELSE [sf_cache_build(k) EXCEPT !.refcount = @ + 1]]
        cf == [a \in (DOMAIN c.compiled_factories) \cup compiled |->
                 IF a \in compiled
                 THEN sf_compiler_compile_class(
                          rc[c.bindings[a].concrete.name],
                          c.bindings[a].scope = SCOPE_SINGLETON)
                 ELSE c.compiled_factories[a]]
    IN [c |-> [c EXCEPT !.reflection_cache = rc,
                        !.compiled_factories = cf,
                        !.compilation_enabled = TRUE],
        count |-> Cardinality(compiled)]


(***************************************************************************)
(* The calling script.  Each world is one family of PHP scripts: the       *)
(* arguments its calls are drawn from, and the builds it is run on.        *)
(***************************************************************************)
Worlds == {"cycle", "scope", "ctx", "alias", "deps", "tags", "inst", "reentry", "fail",
           "decor", "compile", "wide"}

BindArgs(w) ==
    CASE w = "cycle" -> {<<"A", NullConcrete>>, <<"B", NullConcrete>>, <<"S", NullConcrete>>}
      [] w = "scope" -> {<<"svc", StrC("P")>>, <<"svc", ClosureC("fresh")>>}
      [] w = "ctx" -> {<<"X", NullConcrete>>}
      [] w = "alias" -> {<<"n1", StrC("P")>>, <<"P", NullConcrete>>}
      [] w = "deps" -> {<<"T", ClosureC("throw")>>, <<"X", NullConcrete>>}
      [] w = "reentry" -> {<<"O", NullConcrete>>, <<"X", ClosureC("uncompile")>>}
      [] w = "decor" -> {<<"I", StrC("Dec")>>}
      [] w = "compile" -> {<<"U", NullConcrete>>, <<"Ghost", NullConcrete>>,
                           <<"I", NullConcrete>>, <<"P", NullConcrete>>,
                           <<"svc", ClosureC("fresh")>>}
      [] OTHER -> {}

SingletonArgs(w) ==
    CASE w = "scope" -> {<<"svc", StrC("P")>>, <<"svc", ClosureC("fresh")>>}
      [] w = "alias" -> {<<"n1", StrC("Q")>>, <<"P", NullConcrete>>}
      [] w = "tags" -> {<<"svc", StrC("P")>>}
      [] w = "ctx" -> {<<"I", StrC("Q")>>}
      [] w = "reentry" -> {<<"svc", ClosureC("rebind")>>, <<"svc", ClosureC("reflush")>>}
      [] w = "fail" -> {<<"svc", ClosureC("throw")>>, <<"svc", StrC("Boom")>>}
      [] w = "wide" -> {<<"svc", ClosureC("fresh")>>, <<"svc", StrC("Wide")>>}
      [] w = "compile" -> {<<"Q", NullConcrete>>, <<"svc", StrC("X")>>}
      [] OTHER -> {}

InstanceArgs(w) == IF w \in {"scope", "inst", "compile"} THEN {"svc"} ELSE {}

\* the classes of the objects the script passes to instance()
InstanceKinds(w) == IF w = "inst" THEN {"Given", "Closure"} ELSE {"Given"}

\* <<abstract, alias>>: alias becomes another name for abstract
AliasArgs(w) ==
    IF w = "alias"
    THEN {<<"P", "n1">>, <<"n2", "n1">>, <<"n3", "n2">>, <<"n1", "n3">>, <<"n1", "n2">>}
    ELSE {}

\* <<concrete, abstract, implementation>> of when(concrete)->needs(abstract)->give(...)
GiveArgs(w) ==
    CASE w = "ctx" -> {<<"X", "I", StrC("ImplA")>>, <<"X", "I:Q", StrC("ImplA")>>}
      [] w = "decor" -> {<<"Dec", "I", StrC("ImplA")>>}
      [] OTHER -> {}

MakeArgs(w) ==
    CASE w = "cycle" -> {"A", "B", "S", "K1", "K2", "K3"}
      [] w = "scope" -> {"svc", "P"}
      [] w = "ctx" -> {"X", "X:I", "I"}
      [] w = "alias" -> {"n1", "n2", "P"}
      [] w = "deps" -> {"W", "N", "Nd", "U", "Ghost", "X", "O"}
      [] w = "inst" -> {"svc"}
      [] w = "reentry" -> {"svc", "O"}
      [] w = "fail" -> {"svc"}
      [] w = "decor" -> {"I", "Dec"}
      [] w = "wide" -> {"Wide"}
      [] OTHER -> {"P"}

\* the second argument of make(abstract, parameters): the classes of the
\* objects the script passes, by parameter name
ParamArgs(w, a) ==
    IF w = "deps" /\ a \in {"X", "O"}
    THEN {EmptyHT, [n \in {"i"} |-> "ImplA"]}
    ELSE {EmptyHT}

\* the parameters array, its objects allocated by the script before the call
ScriptParams(c, shape) ==
    [n \in DOMAIN shape |-> ObjVal(shape[n], c.next_handle, <<>>)]
ScriptAllocated(c, shape) ==
    IF DOMAIN shape = {} THEN c ELSE [c EXCEPT !.next_handle = @ + 1]

QueryArgs(w) ==
    CASE w = "scope" -> {"svc"}
      [] w = "alias" -> {"n1", "P"}
      [] OTHER -> {}

ForgetArgs(w) ==
    CASE w \in {"scope", "inst"} -> {"svc"}
      [] w = "alias" -> {"n1"}
      [] OTHER -> {}

\* <<abstracts, tag>> of tag(abstracts, tag)
TagArgs(w) ==
    IF w = "tags"
    THEN {<<<<"svc", NotAString, "P">>, "t">>, <<<<"P">>, "t">>}
    ELSE {}

\* the tag of tagged(tag)
TaggedArgs(w) == IF w = "tags" THEN {"t", "none"} ELSE {}

Resets(w) == w \in {"scope", "alias"}
Compiles(w) == w \in {"cycle", "scope", "ctx", "deps", "reentry", "fail", "compile"}

\* the builds a world's scripts are run on: <<ZSTR_H, SF_HAS_SIMD>>
Builds(w) ==
    IF w \in {"cycle", "decor"} THEN HashFns \X BOOLEAN ELSE {<<WideHash, TRUE>>}

\* what a read of a freed record gives on the build the script runs on: the
\* old contents, a reused block (reading as Singleton or as Transient), or a
\* fault
Allocators(w) ==
    CASE w = "reentry" -> {"old", "singleton", "transient", "crash"}
      [] w = "wide" -> {"old", "busy", "reused", "crash"}
      [] OTHER -> {"old"}

\* the worlds whose worker process serves more than one request
Requests(w) == w = "wide"

(***************************************************************************)
(* What the script sees of one call.                                       *)
(***************************************************************************)
NoCall == [op |-> "none", abstract |-> NULL, ok |-> TRUE, val |-> UndefVal,
           flag |-> FALSE, exception |-> "none", first_exception |-> "none",
           chain |-> <<>>, max_frames |-> 0, max_ctx |-> <<>>, cached |-> FALSE,
           params |-> EmptyHT, freed |-> {}, scratch |-> {}, built |-> 0,
           released |-> 0, raise_ctx |-> <<>>]

Did(op, abstract) == [NoCall EXCEPT !.op = op, !.abstract = abstract]
Answered(op, abstract, flag) == [Did(op, abstract) EXCEPT !.flag = flag]

\* what the two singleton caches hold for a key
CacheEntry(c, key) ==
    <<IF HtHas(c.instances, key) THEN c.instances[key] ELSE UndefVal,
      sf_fast_lookup_find(c.fast_cache, key)>>

\* the outcome of Container::make: a value is returned unless FAILURE (then null),
\* and the exception left pending is thrown into the script
Made(abstract, r) ==
    [op |-> "make", abstract |-> abstract,
     cached |-> CacheEntry(r.m, sf_resolve_alias(cont, abstract))
                    # CacheEntry(cont, sf_resolve_alias(cont, abstract)),
     ok |-> r.ok /\ r.m.exception = "none",
     val |-> IF r.ok THEN r.val ELSE NullVal,
     flag |-> r.ok,
     exception |-> r.m.exception,
     first_exception |-> r.m.first_exception,
     chain |-> r.m.chain,
     max_frames |-> r.m.max_frames,
     max_ctx |-> r.m.max_ctx,
     params |-> EmptyHT,
     freed |-> r.m.freed_held,
     scratch |-> r.m.scratch,
     built |-> r.m.built,
     released |-> r.m.released,
     raise_ctx |-> r.m.raise_ctx]

\* what the script sees of tagged(tag)
TaggedResult(tag, r) ==
    [Did("tagged", tag) EXCEPT !.val = r.val, !.exception = r.m.exception,
                               !.first_exception = r.m.first_exception,
                               !.ok = (r.m.exception = "none"),
                               !.max_frames = r.m.max_frames]

\* the script catches the exception; the next call starts with none pending
Settle(m) ==
    [m EXCEPT !.exception = "none", !.first_exception = "none", !.chain = <<>>,
              !.overflow = FALSE, !.max_frames = 0, !.max_ctx = <<>>,
              !.freed_held = {}, !.scratch = {}, !.built = 0, !.released = 0,
              !.raise_ctx = <<>>]

Init ==
    /\ world \in Worlds
    /\ \E b \in Builds(world) : hashOf = b[1] /\ sfHasSimd = b[2]
    /\ \E x \in Allocators(world) : cont = [sf_container_create EXCEPT !.allocator = x]
    /\ last = NoCall
    /\ prev = NoCall
    /\ halted = FALSE
    /\ ops = 0

\* a call that returns to the script, leaving container c and observation o
Returns(c, o) ==
    /\ cont' = c
    /\ last' = o
    /\ prev' = last
    /\ ops' = ops + 1
    /\ UNCHANGED <<hashOf, sfHasSimd, world, halted>>

CanCall == ~halted /\ ops < MaxOps

Bind ==
    /\ CanCall
    /\ \E a \in BindArgs(world) :
          Returns(sf_do_bind(cont, a[1], a[2], SCOPE_TRANSIENT), Did("bind", a[1]))

Singleton ==
    /\ CanCall
    /\ \E a \in SingletonArgs(world) :
          Returns(sf_do_bind(cont, a[1], a[2], SCOPE_SINGLETON), Did("singleton", a[1]))

\* Container::instance(abstract, new Given)
Instance ==
    /\ CanCall
    /\ \E a \in InstanceArgs(world) :
          \E k \in InstanceKinds(world) :
             Returns(sf_container_instance([cont EXCEPT !.next_handle = @ + 1], a,
                                           ObjVal(k, cont.next_handle, <<>>)),
                     [Did("instance", a) EXCEPT !.val = ObjVal(k, cont.next_handle, <<>>)])

Alias ==
    /\ CanCall
    /\ \E a \in AliasArgs(world) :
          Returns(sf_container_alias(cont, a[1], a[2]), Did("alias", a[2]))

Give ==
    /\ CanCall
    /\ \E a \in GiveArgs(world) :
          Returns(sf_container_add_contextual_binding(cont, a[1], a[2], a[3]),
                  Did("give", a[2]))

Make ==
    /\ CanCall
    /\ \E a \in MakeArgs(world) :
          \E shape \in ParamArgs(world, a) :
             LET r == sf_container_make(ScriptAllocated(cont, shape), a,
                                        ScriptParams(cont, shape), NULL, MaxDepth)
             IN IF r.m.overflow
                THEN /\ halted' = TRUE
                     /\ last' = [Made(a, r) EXCEPT !.params = ScriptParams(cont, shape)]
                     /\ prev' = last
                     /\ ops' = ops + 1
                     /\ UNCHANGED <<cont, hashOf, sfHasSimd, world>>
                ELSE Returns(Settle(r.m),
                             [Made(a, r) EXCEPT !.params = ScriptParams(cont, shape)])

Has ==
    /\ CanCall
    /\ \E a \in QueryArgs(world) :
          Returns(cont, Answered("has", a, sf_container_has(cont, a)))

Bound ==
    /\ CanCall
    /\ \E a \in QueryArgs(world) :
          Returns(cont, Answered("bound", a, sf_container_bound(cont, a)))

Resolved ==
    /\ CanCall
    /\ \E a \in QueryArgs(world) :
          Returns(cont, Answered("resolved", a, sf_container_resolved(cont, a)))

ForgetInstance ==
    /\ CanCall
    /\ \E a \in ForgetArgs(world) :
          Returns(sf_container_forget_instance(cont, a), Did("forgetInstance", a))

ForgetInstances ==
    /\ CanCall
    /\ Resets(world)
    /\ Returns(sf_container_forget_instances(cont), Did("forgetInstances", NULL))

Tag ==
    /\ CanCall
    /\ \E a \in TagArgs(world) :
          Returns(sf_container_tag(cont, a[1], a[2]),
                  [Did("tag", a[2]) EXCEPT !.params = a[1]])

Tagged ==
    /\ CanCall
    /\ \E t \in TaggedArgs(world) :
          LET r == sf_container_tagged(cont, t)
          IN IF r.m.overflow
             THEN /\ halted' = TRUE
                  /\ last' = TaggedResult(t, r)
                  /\ prev' = last
                  /\ ops' = ops + 1
                  /\ UNCHANGED <<cont, hashOf, sfHasSimd, world>>
             ELSE Returns(Settle(r.m), TaggedResult(t, r))

\* RSHUTDOWN releases the global container and request memory is freed;
\* RINIT: the next request creates its container lazily.  The pool manager
\* is static and keeps its pointers.
NextRequest ==
    /\ CanCall
    /\ Requests(world)
    /\ Returns([sf_container_create EXCEPT
                    !.allocator = cont.allocator,
                    !.orphans = cont.orphans \cup LeftAlive(cont.reflection_cache),
                    !.pool = [cont.pool EXCEPT !.stale = cont.pool.initialized]],
               Did("request", NULL))

Flush ==
    /\ CanCall
    /\ Resets(world)
    /\ Returns(sf_container_flush(cont), Did("flush", NULL))

Compile ==
    /\ CanCall
    /\ Compiles(world)
    /\ Returns(sf_compiler_compile_all(cont).c,
               [Did("compile", NULL) EXCEPT
                   !.val = LongVal(sf_compiler_compile_all(cont).count)])

ClearCompiled ==
    /\ CanCall
    /\ Compiles(world)
    /\ Returns(sf_container_clear_compiled(cont), Did("clearCompiled", NULL))

Next ==
    \/ Bind
    \/ Singleton
    \/ Instance
    \/ Alias
    \/ Give
    \/ Make
    \/ Has
    \/ Bound
    \/ Resolved
    \/ ForgetInstance
    \/ ForgetInstances
    \/ Tag
    \/ Tagged
    \/ Flush
    \/ Compile
    \/ ClearCompiled
    \/ NextRequest

Spec == Init /\ [][Next]_vars

(***************************************************************************)
(* The resolution context on its own: sf_resolution_context_push and       *)
(* sf_resolution_context_pop applied in any order, as nested makes of      *)
(* arbitrary dependency chains apply them, on every build.  Identifiers    *)
(* are taken in the order of IdSeq: a push names an identifier already     *)
(* pushed before or the first one not yet used.                            *)
(***************************************************************************)
CtxIds == {IdSeq[i] : i \in 1..MaxCtxDepth}

Range(seq) == {seq[i] : i \in 1..Len(seq)}

NextUnused(stack) ==
    {IdSeq[i] : i \in {j \in 1..MaxCtxDepth :
                          /\ IdSeq[j] \notin Range(stack)
                          /\ \A k \in 1..(j - 1) : IdSeq[k] \in Range(stack)}}

ContextInit ==
    /\ world = "context"
    /\ \E b \in HashFns \X BOOLEAN : hashOf = b[1] /\ sfHasSimd = b[2]
    /\ cont = sf_container_create
    /\ last = NoCall
    /\ prev = NoCall
    /\ halted = FALSE
    /\ ops = 0

ContextPush ==
    /\ CtxDepth(cont.context) < MaxCtxDepth
    /\ \E x \in Range(cont.context.stack) \cup NextUnused(cont.context.stack) :
          cont' = [cont EXCEPT !.context = sf_resolution_context_push(@, x).ctx]
    /\ UNCHANGED <<hashOf, sfHasSimd, world, last, prev, halted, ops>>

ContextPop ==
    /\ cont' = [cont EXCEPT !.context = sf_resolution_context_pop(@)]
    /\ UNCHANGED <<hashOf, sfHasSimd, world, last, prev, halted, ops>>

ContextNext ==
    \/ ContextPush
    \/ ContextPop

ContextSpec == ContextInit /\ [][ContextNext]_vars

(***************************************************************************)
(* The fast lookup table on its own (src/src/fast_lookup.c): the table is  *)
(* cont.fast_cache and cont.instances is the plain map the container keeps *)
(* beside it, updated by the same calls.  n1, n2 and n4 share a            *)
(* fingerprint; n1 and n2 also share the group.                            *)
(***************************************************************************)
TableKeys == {"n1", "n2", "n3", "n4"}

TableLo(n) ==
    CASE n = "n1" -> 5
      [] n = "n2" -> 5 + (128 * FastCacheGroups)
      [] n = "n3" -> 6
      [] n = "n4" -> 5 + 128
      [] OTHER -> 37 * IdIndex(n) + 5

TableHashFns == {[n \in AllIds |-> [hi |-> hi, lo |-> TableLo(n)]] : hi \in {0, 1}}

TableValues == {ObjVal("P", 1, <<>>), ObjVal("P", 2, <<>>)}

TableInit ==
    /\ world = "table"
    /\ hashOf \in TableHashFns
    /\ sfHasSimd \in BOOLEAN
    /\ cont = sf_container_create
    /\ last = NoCall
    /\ prev = NoCall
    /\ halted = FALSE
    /\ ops = 0

TableInsert ==
    \E k \in TableKeys : \E v \in TableValues :
       LET r == sf_fast_lookup_insert(cont.fast_cache, k, v)
       IN /\ cont' = [cont EXCEPT !.instances = HtUpdate(@, k, v),
                                  !.fast_cache = r.lookup]
          /\ last' = [Did("insert", k) EXCEPT !.ok = r.ok, !.val = v,
                                              !.flag = HtHas(cont.instances, k)]
          /\ prev' = last
          /\ UNCHANGED <<hashOf, sfHasSimd, world, halted, ops>>

TableRemove ==
    \E k \in TableKeys :
       /\ cont' = [cont EXCEPT !.instances = HtDel(@, k),
                               !.fast_cache = sf_fast_lookup_remove(@, k)]
       /\ last' = [Did("remove", k) EXCEPT !.flag = HtHas(cont.instances, k)]
       /\ prev' = last
       /\ UNCHANGED <<hashOf, sfHasSimd, world, halted, ops>>

TableClear ==
    /\ cont' = [cont EXCEPT !.instances = EmptyHT,
                            !.fast_cache = sf_fast_lookup_clear(@)]
    /\ last' = Did("clear", NULL)
    /\ prev' = last
    /\ UNCHANGED <<hashOf, sfHasSimd, world, halted, ops>>

TableNext ==
    \/ TableInsert
    \/ TableRemove
    \/ TableClear

TableSpec == TableInit /\ [][TableNext]_vars

(***************************************************************************)
(* Properties.                                                             *)
(***************************************************************************)
MakeStep == ops' = ops + 1 /\ last'.op = "make"
LastMake(a) == last.op = "make" /\ last.abstract = a

SingletonBound(c, key) ==
    /\ HtHas(c.bindings, key)
    /\ c.bindings[key].scope = SCOPE_SINGLETON
    /\ c.bindings[key].concrete.kind \in {"string", "closure"}

\* concretes whose construction cannot fail: a class without constructor
\* parameters, a factory callable that returns a new object
Constructs(concrete) ==
    \/ concrete.kind = "closure" /\ ClosureTable[concrete.name].returns = "new"
    \/ /\ concrete.kind = "string"
       /\ zend_lookup_class(concrete.name)
       /\ ClassTable[concrete.name].instantiable
       /\ ClassTable[concrete.name].params = <<>>
       /\ ~ClassTable[concrete.name].ctor_throws

\* a factory that rebinds or flushes while the make that called it runs
RebindsOrFlushes(concrete) ==
    /\ concrete.kind = "closure"
    /\ ClosureTable[concrete.name].calls \in {"bind", "flush"}

\* C1: with compilation disabled, every make step leaves the instances already
\* cached in place; a make of a Singleton-bound abstract returns the cached
\* instance when there is one, caches the instance it returns when there is
\* none, and succeeds when the bound class or factory constructs.  Hence the
\* first make(A) succeeds and every later make(A) returns that same instance
\* whatever other abstracts are made in between.  A factory that itself
\* rebinds A or flushes is a rebind or flush in between and is left out.
C1_SingletonIdentity ==
    [][(MakeStep /\ ~cont.compilation_enabled) =>
        LET key == sf_resolve_alias(cont, last'.abstract)
        IN /\ \A k \in DOMAIN cont.instances :
                 HtHas(cont'.instances, k) /\ cont'.instances[k] = cont.instances[k]
           /\ (SingletonBound(cont, key)
                  /\ ~RebindsOrFlushes(cont.bindings[key].concrete)) =>
                 /\ HtHas(cont.instances, key) =>
                       last'.ok /\ last'.val = cont.instances[key]
                 /\ (~HtHas(cont.instances, key) /\ last'.ok) =>
                       HtHas(cont'.instances, key) /\ cont'.instances[key] = last'.val
                 /\ Constructs(cont.bindings[key].concrete) => last'.ok]_vars

C1_Witness ==
    /\ LastMake("svc") /\ prev.op = "make" /\ prev.abstract = "svc"
    /\ SingletonBound(cont, "svc")
    /\ ~cont.compilation_enabled
    /\ last.ok /\ prev.ok /\ prev.cached /\ ~last.cached
    /\ last.val.kind = "object" /\ last.val = prev.val

\* the classes reachable from a class through constructor type hints
Requires(n) ==
    IF zend_lookup_class(n)
    THEN {ClassTable[n].params[i].type_hint : i \in 1..Len(ClassTable[n].params)}
    ELSE {}
RECURSIVE ReachFrom(_, _)
ReachFrom(seen, k) ==
    IF k = 0 THEN seen
    ELSE ReachFrom(seen \cup UNION {Requires(n) : n \in seen}, k - 1)
Reach(n) == ReachFrom({n}, Cardinality(AllIds))
OnConstructorCycle(n) == n \in UNION {Requires(d) : d \in Reach(n)}

\* C2: with compilation disabled and no cached instances, make of a member of
\* a constructor cycle fails with CircularDependency.
C2_CycleRaises ==
    (/\ last.op = "make"
     /\ OnConstructorCycle(last.abstract)
     /\ ~cont.compilation_enabled
     /\ DOMAIN cont.instances = {})
        => last.exception = "CircularDependency"

\* C3: make of a class that requires itself raises CircularDependency at the
\* first nested attempt: the resolution stack never held more than [S] and the
\* reported chain is S -> S.
C3_SelfCycleFirstAttempt ==
    (/\ LastMake("S")
     /\ ~cont.compilation_enabled
     /\ DOMAIN cont.instances = {})
        => /\ last.exception = "CircularDependency"
           /\ last.max_ctx = <<"S">>
           /\ last.chain = <<"S", "S">>

\* C4: every make returns (an instance or an error), and its recursion is never
\* deeper than the number of distinct abstracts involved plus one.
C4_MakeTerminates ==
    /\ ~halted
    /\ last.op = "make" => last.max_frames <= Cardinality(Reach(last.abstract)) + 1

TransientBound(c, key) ==
    HtHas(c.bindings, key) /\ c.bindings[key].scope = SCOPE_TRANSIENT

\* C5: when the binding of A is Transient, two consecutive successful make(A)
\* calls return distinct instances and neither stores anything for A in the
\* instance cache or the fast lookup table.
C5_TransientDistinct ==
    (/\ last.op = "make" /\ prev.op = "make"
     /\ last.abstract = prev.abstract
     /\ last.ok /\ prev.ok
     /\ TransientBound(cont, sf_resolve_alias(cont, last.abstract)))
        => /\ last.val # prev.val
           /\ ~last.cached /\ ~prev.cached

\* the contextual bindings registered for the pair (requester, dependency)
Registered(c, requester, dependency) ==
    {k \in DOMAIN c.contextual_bindings :
        /\ c.contextual_bindings[k].concrete = requester
        /\ c.contextual_bindings[k].abstract = dependency}

\* C6: with when(X).needs(I).give(ImplA) registered and no binding or cached
\* instance for I, every make(X) yields an X constructed with an ImplA
\* instance as its I argument, compiled or not.
C6_ContextualEveryMake ==
    (/\ LastMake("X")
     /\ Registered(cont, "X", "I") # {}
     /\ \A k \in Registered(cont, "X", "I") :
           cont.contextual_bindings[k].implementation = StrC("ImplA")
     /\ ~HtHas(cont.bindings, "I")
     /\ ~HtHas(cont.instances, "I"))
        => /\ last.ok
           /\ last.val.cls = "X"
           /\ Len(last.val.args) = 1
           /\ last.val.args[1].cls = "ImplA"

\* C7: an implementation given for the pair (X, D) reaches only X's D
\* argument: a top-level make never returns it for another abstract, and an
\* object of class R receives it for parameter type D' only if a contextual
\* binding was registered for (R, D').
C7_ContextualOnlyForPair ==
    (world = "ctx" /\ last.op = "make" /\ last.ok)
        => /\ last.val.cls = "ImplA" => last.abstract = "ImplA"
           /\ \A i \in 1..Len(last.val.args) :
                 last.val.args[i].cls = "ImplA" =>
                    Registered(cont, last.val.cls,
                               ClassTable[last.val.cls].params[i].type_hint) # {}

\* single-hop aliases: name N stands for target T and T is not itself an alias
SingleHop(c) ==
    {n \in DOMAIN c.aliases : ~HtHas(c.aliases, c.aliases[n])}

AnyConcrete == {StrC("P"), StrC("Q"), ClosureC("fresh")}

RECURSIVE Hop(_, _, _)
Hop(aliases, n, k) ==
    IF k = 0 THEN n
    ELSE IF HtHas(aliases, n) THEN Hop(aliases, aliases[n], k - 1)
    ELSE NULL
LongerThan(aliases, n, k) ==
    Hop(aliases, n, k) # NULL /\ HtHas(aliases, Hop(aliases, n, k))

\* C9 as stated: at most 10 hops are followed, and a chain longer than 10 hops
\* resolves to the originally requested name.
C9_OverlongGivesOriginal ==
    \A n \in AllIds :
        /\ \E k \in 0..AliasHopLimit : sf_resolve_alias(cont, n) = Hop(cont.aliases, n, k)
        /\ LongerThan(cont.aliases, n, AliasHopLimit) => sf_resolve_alias(cont, n) = n

\* C9: alias resolution follows the chain to its end when that takes at most
\* 10 hops, and otherwise stops at the name reached after exactly 10 hops.
C9_AtMostTenHops ==
    \A n \in AllIds :
        LET r == sf_resolve_alias(cont, n)
        IN IF LongerThan(cont.aliases, n, AliasHopLimit)
           THEN r = Hop(cont.aliases, n, AliasHopLimit)
           ELSE /\ ~HtHas(cont.aliases, r)
                /\ \E k \in 0..AliasHopLimit : r = Hop(cont.aliases, n, k)

C9_Witness ==
    /\ LongerThan(cont.aliases, "n1", AliasHopLimit)
    /\ sf_resolve_alias(cont, "n1") = "n2"
    /\ LastMake("n1")

\* C10: once a Singleton binding has resolved, the fast lookup table and the
\* instance cache both hold its instance.
C10_BothCachesHit ==
    \A key \in DOMAIN cont.bindings :
        (cont.bindings[key].scope = SCOPE_SINGLETON /\ cont.bindings[key].resolved)
            => /\ HtHas(cont.instances, key)
               /\ sf_fast_lookup_find(cont.fast_cache, key).found
               /\ sf_fast_lookup_find(cont.fast_cache, key).val = cont.instances[key]

ForgetStep == ops' = ops + 1 /\ last'.op = "forgetInstance"

\* C11: a forgetInstance(A) step leaves no entry for the alias-resolved A in
\* the instance cache or the fast lookup table and resolved(A) false; with
\* compilation disabled the make(A) that follows it, A Singleton-bound,
\* succeeds when the bound class or factory constructs, returns an object
\* allocated by that very call and leaves it in the instance cache.
C11_ForgetThenFresh ==
    [][/\ ForgetStep =>
             LET key == sf_resolve_alias(cont', last'.abstract)
             IN /\ ~HtHas(cont'.instances, key)
                /\ ~sf_fast_lookup_find(cont'.fast_cache, key).found
                /\ ~sf_container_resolved(cont', last'.abstract)
       /\ (/\ MakeStep
           /\ last.op = "forgetInstance"
           /\ sf_resolve_alias(cont, last.abstract)
                 = sf_resolve_alias(cont, last'.abstract)
           /\ SingletonBound(cont, sf_resolve_alias(cont, last'.abstract))
           /\ ~cont.compilation_enabled) =>
             LET key == sf_resolve_alias(cont, last'.abstract)
             IN /\ Constructs(cont.bindings[key].concrete) => last'.ok
                /\ last'.ok =>
                      /\ last'.val.kind = "object"
                      /\ last'.val.id >= cont.next_handle
                      /\ last'.cached
                      /\ HtHas(cont'.instances, key)
                      /\ cont'.instances[key] = last'.val
                      /\ sf_container_resolved(cont', last'.abstract)]_vars

\* singleton, make, forgetInstance, make: the second make built a second object
C11_Witness ==
    /\ LastMake("svc") /\ prev.op = "forgetInstance" /\ prev.abstract = "svc"
    /\ SingletonBound(cont, "svc")
    /\ ~cont.compilation_enabled
    /\ last.ok /\ last.cached /\ last.val.id = 2
    /\ cont.instances["svc"] = last.val

\* the classes of a world's script that sf_compiler_can_compile accepts
CompilableClasses(w) ==
    {k \in MakeArgs(w) \cap DOMAIN ClassTable :
        sf_compiler_can_compile(sf_cache_build(k))}

\* two resolutions of one class from one state agree on what the caller sees
\* and on what they leave cached
SameOutcome(f, a) ==
    /\ f.ok = a.ok
    /\ f.m.exception = a.m.exception
    /\ f.m.overflow = a.m.overflow
    /\ f.ok => f.val = a.val
    /\ f.m.instances = a.m.instances

\* C12: in every state, for every compilable class, calling the factory
\* compiled for the class and autowiring the class give the same result: the
\* same success or error kind, the same object with the same dependency
\* instances, and the same instance cache afterwards.
C12_FactoryMatchesAutowire ==
    \A k \in CompilableClasses(world) :
        ~halted =>
           SameOutcome(sf_factory_call(cont, sf_compiler_compile_class(sf_cache_build(k), FALSE),
                                       EmptyHT, MaxDepth),
                       sf_autowire_resolve(cont, k, EmptyHT, MaxDepth))

\* C13: while compilation is enabled, two successive successful make(A)
\* calls for an abstract A Singleton-bound to a class return the same
\* instance, and that instance is cached under the alias-resolved A.
C13_CompiledSingleton ==
    LET key == sf_resolve_alias(cont, last.abstract)
    IN (/\ last.op = "make" /\ prev.op = "make"
        /\ last.abstract = prev.abstract
        /\ last.ok /\ prev.ok
        /\ cont.compilation_enabled
        /\ SingletonBound(cont, key)
        /\ cont.bindings[key].concrete.kind = "string")
       => /\ last.val = prev.val
          /\ HtHas(cont.instances, key)
          /\ cont.instances[key] = last.val

\* a make from state c and plain autowiring from state c give the same answer
PlainAutowiring(r, a) ==
    /\ r.ok = a.ok
    /\ r.m.exception = a.m.exception
    /\ r.m.overflow = a.m.overflow
    /\ r.ok => r.val = a.val

\* a container in which nothing is registered, cached or compiled
FlushedState(f) ==
    /\ f.bindings = EmptyHT /\ f.aliases = EmptyHT /\ f.tags = EmptyHT
    /\ f.contextual_bindings = EmptyHT /\ f.instances = EmptyHT
    /\ f.compiled_factories = EmptyHT /\ ~f.compilation_enabled
    /\ f.fast_cache.count = 0
    /\ \A s \in DOMAIN f.fast_cache.ctrl : f.fast_cache.ctrl[s] = CTRL_EMPTY
    /\ \A a \in AllIds :
          ~sf_container_bound(f, a) /\ ~sf_container_resolved(f, a)
    /\ \A a \in MakeArgs(world) : ~sf_fast_lookup_find(f.fast_cache, a).found
    /\ sf_container_flush(f) = f

\* every class of the script is made from f as plain autowiring makes it
MakesByAutowiring(f) ==
    \A k \in MakeArgs(world) \cap DOMAIN ClassTable :
        PlainAutowiring(sf_container_make(f, k, EmptyHT, NULL, MaxDepth),
                        sf_autowire_resolve(f, k, EmptyHT, MaxDepth))

\* C14: from every state, flush() gives a container where bound and resolved
\* are false for every abstract, no alias, tag, contextual binding, cached
\* instance (either cache) or compiled factory is left, compilation is
\* disabled, and a second flush() changes nothing; after a flush() a make of
\* a class answers as plain autowiring of the class does.
C14_FlushClears ==
    /\ FlushedState(sf_container_flush(cont))
    /\ last.op = "flush" => MakesByAutowiring(cont)

\* a flush() of a container that held a binding, a tag and a cached singleton
C14_Witness ==
    /\ last.op = "flush"
    /\ prev.op = "make" /\ prev.ok /\ prev.cached
    /\ FlushedState(cont)

\* C15: the resolution context is empty between public calls, that is before
\* and after every top-level make, whichever way the make returned.
C15_ContextEmpty ==
    /\ CtxDepth(cont.context) = 0
    /\ cont.context.hashes = <<>>

\* a make that failed with three abstracts on the resolution stack
C15_Witness ==
    /\ C15_ContextEmpty
    /\ last.op = "make" /\ ~last.ok /\ last.exception = "CircularDependency"
    /\ Len(last.max_ctx) >= 3

\* the class that is autowired when abstract a is made
ConcreteOf(c, a) ==
    IF HtHas(c.bindings, a) /\ c.bindings[a].concrete.kind = "string"
    THEN c.bindings[a].concrete.name
    ELSE a

\* C17: when a make fails with CircularDependency, the chain it reports is
\* the resolution context as it was pushed, oldest first, followed by the
\* abstract whose push was refused: that abstract is already in the context,
\* and every entry after the first is a constructor dependency of the entry
\* before it.
C17_ChainIsContext ==
    (last.op = "make" /\ last.exception = "CircularDependency") =>
        LET n == Len(last.chain)
        IN /\ n >= 2
           /\ SubSeq(last.chain, 1, n - 1) = last.raise_ctx
           /\ \E i \in 1..(n - 1) : last.chain[i] = last.chain[n]
           /\ \A i \in 1..(n - 1) :
                 last.chain[i + 1] \in Requires(ConcreteOf(cont, last.chain[i]))

\* K1 -> K2 -> K3 -> K1 reported with its three context entries
C17_Witness ==
    /\ last.op = "make" /\ last.exception = "CircularDependency"
    /\ last.chain = <<"K1", "K2", "K3", "K1">>

\* C16: the error kind a make that returned reports is the kind of the first
\* error raised during that call.
C16_FirstErrorReported ==
    (last.op = "make" /\ ~halted /\ last.exception # "none") =>
        last.exception = last.first_exception

\* the positions of K's constructor parameters that params names
Supplied(K, params) ==
    {i \in 1..Len(ClassTable[K].params) : HtHas(params, ClassTable[K].params[i].name)}

\* the object made is a K whose supplied positions hold the supplied values
PassedAsGiven(o, K, params) ==
    /\ o.ok
    /\ o.val.kind = "object" /\ o.val.cls = K
    /\ \A i \in Supplied(K, params) :
          /\ i <= Len(o.val.args)
          /\ o.val.args[i] = params[ClassTable[K].params[i].name]

\* the call answered as the same call without parameters answers
AsWithoutParams(o, r) ==
    /\ o.flag = r.ok
    /\ o.exception = r.m.exception

\* C18: a make with parameters that constructs class K, with compilation
\* enabled or not: when the parameters name every constructor parameter of K
\* the make succeeds and the constructor receives the supplied values; when
\* they name none, the make answers as it does without parameters, the
\* values being handed to no dependency's constructor.
C18_SuppliedParamsWin ==
    [][(/\ MakeStep /\ ~halted'
        /\ DOMAIN last'.params # {}
        /\ ~HtHas(cont.instances, sf_resolve_alias(cont, last'.abstract))
        /\ zend_lookup_class(ConcreteOf(cont, sf_resolve_alias(cont, last'.abstract)))) =>
          LET K == ConcreteOf(cont, sf_resolve_alias(cont, last'.abstract))
          IN /\ Supplied(K, last'.params) = 1..Len(ClassTable[K].params) =>
                   PassedAsGiven(last', K, last'.params)
             /\ Supplied(K, last'.params) = {} =>
                   AsWithoutParams(last', sf_container_make(cont, last'.abstract, EmptyHT,
                                                            NULL, MaxDepth))]_vars

\* what the make of class K, whose one constructor parameter p is hinted and
\* was not supplied, must answer when r is the resolution of p's type
FallbackFor(o, K, p, r) ==
    (~r.ok) =>
        CASE p.is_nullable ->
                 /\ o.ok /\ o.val.kind = "object" /\ o.val.cls = K
                 /\ o.val.args = <<NullVal>>
          [] p.has_default ->
                 /\ o.ok /\ o.val.kind = "object" /\ o.val.cls = K
                 /\ o.val.args = <<>>
          [] OTHER -> ~o.ok

\* C19: a make that autowires a class K with one hinted constructor
\* parameter, no value supplied for it, whose type cannot be resolved:
\* a nullable parameter receives null and K is built; otherwise a parameter
\* with a default ends argument building and K is built with no argument;
\* with neither, the make fails.
C19_FallbacksApply ==
    [][(/\ MakeStep /\ ~halted'
        /\ DOMAIN last'.params = {}
        /\ ~HtHas(cont.instances, sf_resolve_alias(cont, last'.abstract))
        /\ ~cont.compilation_enabled
        /\ zend_lookup_class(ConcreteOf(cont, sf_resolve_alias(cont, last'.abstract)))) =>
          LET K == ConcreteOf(cont, sf_resolve_alias(cont, last'.abstract))
          IN (/\ ClassTable[K].instantiable
              /\ Len(ClassTable[K].params) = 1
              /\ ClassTable[K].params[1].type_hint # NULL) =>
                FallbackFor(last', K, ClassTable[K].params[1],
                            sf_container_make(cont, ClassTable[K].params[1].type_hint,
                                              EmptyHT, K, MaxDepth))]_vars

\* a class autowiring cannot build without supplied values: not declared,
\* not instantiable, or its first constructor parameter has no type hint, no
\* default and is not variadic
Unbuildable(K) ==
    \/ ~zend_lookup_class(K)
    \/ ~ClassTable[K].instantiable
    \/ /\ Len(ClassTable[K].params) >= 1
       /\ ClassTable[K].params[1].type_hint = NULL
       /\ ~ClassTable[K].params[1].has_default
       /\ ~ClassTable[K].params[1].is_variadic

\* the make of the alias-resolved abstract key goes to autowiring: nothing
\* is cached for it, and it is unbound or bound to a class by name
Autowires(c, key) ==
    /\ ~HtHas(c.instances, key)
    /\ ~sf_fast_lookup_find(c.fast_cache, key).found
    /\ HtHas(c.bindings, key) => c.bindings[key].concrete.kind = "string"

\* the answer of a make that built nothing
NotFoundNothingBuilt(o, c, d, key) ==
    /\ ~o.ok /\ ~o.flag
    /\ o.exception = "NotFound" /\ o.first_exception = "NotFound"
    /\ o.val = NullVal
    /\ d.next_handle = c.next_handle
    /\ ~HtHas(d.instances, key)
    /\ ~o.cached

TagStep == ops' = ops + 1 /\ last'.op = "tag"
TaggedStep == ops' = ops + 1 /\ last'.op = "tagged" /\ ~halted'

\* the list stored for tag t, empty when the tag is unknown
TagList(c, t) == IF HtHas(c.tags, t) THEN c.tags[t] ELSE <<>>

\* the instances of the entries of items whose make succeeds, entry by entry
\* from the front, each make starting from the state the one before left
RECURSIVE InOrder(_, _)
InOrderRest(r, items) ==
    (IF r.ok THEN <<r.val>> ELSE <<>>) \o InOrder(r.m, Tail(items))
InOrder(m, items) ==
    IF items = <<>> THEN <<>>
    ELSE InOrderRest(sf_container_make(m, Head(items), EmptyHT, NULL, MaxDepth - 1), items)

\* C21: a tag(abstracts, t) step leaves for t the list it had followed by the
\* string items of abstracts in their order, and leaves every other tag's
\* list alone; a tagged(t) step returns, in list order, one instance per
\* entry of t's list whose make succeeds.
C21_TagsAccumulate ==
    [][/\ TagStep =>
             /\ TagList(cont', last'.abstract)
                   = TagList(cont, last'.abstract) \o SelectSeq(last'.params, IsString)
             /\ \A t \in DOMAIN cont.tags :
                   t # last'.abstract => TagList(cont', t) = TagList(cont, t)
       /\ TaggedStep =>
             /\ last'.val.kind = "array"
             /\ last'.val.args = InOrder(cont, TagList(cont, last'.abstract))
             /\ cont'.tags = cont.tags]_vars

\* tag(['P'], t) after tag(['svc', .., 'P'], t), then tagged(t) with svc
\* unbound: the list is svc, P, P and two P instances come back
C21_Witness ==
    /\ last.op = "tagged" /\ last.abstract = "t"
    /\ prev.op = "tag" /\ prev.params = <<"P">>
    /\ TagList(cont, "t") = <<"svc", "P", "P">>
    /\ Len(last.val.args) = 2
    /\ last.val.args[1].id < last.val.args[2].id

\* C22: while the Instance-scope binding made by instance(A, v) exists, a
\* make(A) returns v itself.
C22_InstanceReturnedAsIs ==
    [][(/\ MakeStep /\ ~halted'
        /\ HtHas(cont.bindings, sf_resolve_alias(cont, last'.abstract))
        /\ cont.bindings[sf_resolve_alias(cont, last'.abstract)].scope = SCOPE_INSTANCE) =>
          /\ last'.ok
          /\ last'.val = cont.bindings[sf_resolve_alias(cont, last'.abstract)].concrete.val]_vars

\* C23: between operations, a binding's resolved flag is set exactly when the
\* binding is Singleton and the instance cache holds an instance under the
\* binding's abstract.
C23_ResolvedIffCached ==
    \A key \in DOMAIN cont.bindings :
        cont.bindings[key].resolved
           <=> (cont.bindings[key].scope = SCOPE_SINGLETON /\ HtHas(cont.instances, key))

\* C24: a push of x fails and leaves the stack as it is exactly when x is at
\* some position of the stack; otherwise it appends x, the depth growing by
\* one.
C24_PushFailsIffPresent ==
    \A x \in Range(cont.context.stack) \cup NextUnused(cont.context.stack) :
        IF x \in Range(cont.context.stack)
        THEN /\ ~sf_resolution_context_push(cont.context, x).ok
             /\ sf_resolution_context_push(cont.context, x).ctx = cont.context
        ELSE /\ sf_resolution_context_push(cont.context, x).ok
             /\ sf_resolution_context_push(cont.context, x).ctx.stack
                   = Append(cont.context.stack, x)

NoDuplicates(seq) == \A i, j \in 1..Len(seq) : seq[i] = seq[j] => i = j

\* C25: the resolution context never holds one identifier at two positions:
\* the deepest context a make reached has no duplicates.
C25_ContextHasNoDuplicates ==
    last.op = "make" => NoDuplicates(last.max_ctx)

\* C26: for every entry of the stack, the hash push recorded compares equal
\* to the hash that has probes with for the same identifier, both as the
\* block scan compares (against the low 32 bits of the hash) and as the
\* remainder scan compares (against the whole machine word).
C26_RecordedHashMatchesProbe ==
    \A i \in 1..CtxDepth(cont.context) :
        /\ cont.context.hashes[i] = Trunc32(ZSTR_H(cont.context.stack[i]))
        /\ EqU32U64(cont.context.hashes[i], ZSTR_H(cont.context.stack[i]))


(***************************************************************************)
(* Fast lookup table against the plain map kept beside it.                 *)
(***************************************************************************)
PlainFind(map, k) ==
    IF HtHas(map, k) THEN [found |-> TRUE, val |-> map[k]]
    ELSE [found |-> FALSE, val |-> UndefVal]

KeySlots(lookup, k) == {s \in DOMAIN lookup.keys : lookup.keys[s] = k}

\* C27: after any sequence of insert, remove and clear that keeps the table
\* under 7/8 of its capacity, find(k) returns what a plain map returns after
\* the same sequence, and an insert into a table with free slots succeeds.
C27_TableIsPlainMap ==
    /\ \A k \in TableKeys :
          sf_fast_lookup_find(cont.fast_cache, k) = PlainFind(cont.instances, k)
    /\ (last.op = "insert" => last.ok)


\* C29: after remove(k) of a key that was inserted, find(k) reports not
\* found, a slot is marked deleted, every other key inserted before is still
\* found with its value, and k is never held by more than one slot.
C29_RemoveKeepsOthers ==
    /\ (last.op = "remove" =>
          /\ ~sf_fast_lookup_find(cont.fast_cache, last.abstract).found
          /\ (last.flag => \E s \in DOMAIN cont.fast_cache.ctrl :
                              cont.fast_cache.ctrl[s] = CTRL_DELETED)
          /\ \A k \in TableKeys \ {last.abstract} :
                HtHas(cont.instances, k) =>
                   sf_fast_lookup_find(cont.fast_cache, k) = PlainFind(cont.instances, k))
    /\ \A k \in TableKeys : Cardinality(KeySlots(cont.fast_cache, k)) <= 1


\* make(R) reaches R's constructor by autowiring, which asks for each
\* dependency with R as the requester
RequestsAs(c, R) ==
    /\ MakeBranch(c, sf_resolve_alias(c, R), NULL) \in {"autowire", "binding"}
    /\ Autowires(c, R)
    /\ ConcreteOf(c, R) = R

BuiltClass(concrete) ==
    IF concrete.kind = "closure" THEN ClosureTable[concrete.name].cls ELSE concrete.name

\* C31: the make(A) that follows a bind, singleton or instance of A resolves
\* by the new binding: it returns the given instance, or an object of the
\* newly bound class or factory allocated by that very call.
C31_RebindTakesEffect ==
    [][(/\ MakeStep
        /\ ~halted'
        /\ last.op \in {"bind", "singleton", "instance"}
        /\ sf_resolve_alias(cont, last.abstract) = sf_resolve_alias(cont, last'.abstract)
        /\ HtHas(cont.bindings, sf_resolve_alias(cont, last'.abstract))) =>
          LET key == sf_resolve_alias(cont, last'.abstract)
              concrete == cont.bindings[key].concrete
          IN IF last.op = "instance"
             THEN last'.ok /\ last'.val = last.val
             ELSE Constructs(concrete) =>
                     /\ last'.ok
                     /\ last'.val.kind = "object"
                     /\ last'.val.cls = BuiltClass(concrete)
                     /\ last'.val.id >= cont.next_handle]_vars


\* C32: no make destroys a Binding or compiled Factory record while a running
\* resolution frame still holds it, whatever the factory callables do to
\* the container meanwhile; and every record in the registry carries exactly
\* the registry's one reference.
C32_NoRecordFreedInUse ==
    /\ last.op = "make" => last.freed = {}
    /\ \A a \in DOMAIN cont.bindings : cont.bindings[a].refcount = 1


\* C33: a make(A) step, A Singleton-bound and not cached, whose factory
\* callable or class constructor raises an error reports failure and leaves
\* A's entry in the instance cache and the fast lookup table, and the
\* binding's resolved flag, as they were.
C33_FailedSingletonNotCached ==
    [][(/\ MakeStep
        /\ ~halted'
        /\ SingletonBound(cont, sf_resolve_alias(cont, last'.abstract))
        /\ ~HtHas(cont.instances, sf_resolve_alias(cont, last'.abstract))
        /\ last'.first_exception = "Error") =>
          LET key == sf_resolve_alias(cont, last'.abstract)
          IN /\ ~last'.ok
             /\ CacheEntry(cont', key) = CacheEntry(cont, key)
             /\ HtHas(cont'.bindings, key)
             /\ cont'.bindings[key].resolved = cont.bindings[key].resolved]_vars


\* what resolving abstract for requester leads to: the contextual
\* implementation, else the binding's concrete, else the abstract itself
ResolvesTo(c, abstract, requester) ==
    IF sf_container_get_contextual_binding(c, requester, abstract).found
    THEN sf_container_get_contextual_binding(c, requester, abstract).implementation
    ELSE IF HtHas(c.bindings, abstract) THEN c.bindings[abstract].concrete
    ELSE StrC(abstract)

\* following contextual overrides, bindings and constructor type hints from
\* abstract ends within n levels
RECURSIVE FiniteTree(_, _, _, _)
FiniteTree(c, abstract, requester, n) ==
    /\ n > 0
    /\ \/ HtHas(c.instances, abstract)
       \/ ResolvesTo(c, abstract, requester).kind # "string"
       \/ ~zend_lookup_class(ResolvesTo(c, abstract, requester).name)
       \/ LET cls == ResolvesTo(c, abstract, requester).name
          IN \A i \in 1..Len(ClassTable[cls].params) :
                ClassTable[cls].params[i].type_hint # NULL =>
                   FiniteTree(c, ClassTable[cls].params[i].type_hint, cls, n - 1)

\* C34: a make whose resolution tree is finite never raises
\* CircularDependency.
C34_CircularOnlyWhenEndless ==
    [][(/\ MakeStep
        /\ FiniteTree(cont, sf_resolve_alias(cont, last'.abstract), NULL, Len(IdSeq)))
          => /\ last'.exception # "CircularDependency"
             /\ last'.first_exception # "CircularDependency"]_vars


CompileStep == ops' = ops + 1 /\ last'.op = "compile"

\* canCompile as the specification words it, on the class as declared
DeclaredCompilable(cls) ==
    /\ ClassTable[cls].instantiable
    /\ Len(ClassTable[cls].params) <= 8
    /\ \A i \in 1..Len(ClassTable[cls].params) :
          ClassTable[cls].params[i].has_default
             \/ ClassTable[cls].params[i].type_hint # NULL

\* the bindings compile() is to compile
Eligible(c) ==
    {a \in DOMAIN c.bindings :
        /\ c.bindings[a].concrete.kind = "string"
        /\ c.bindings[a].scope \in {SCOPE_TRANSIENT, SCOPE_SINGLETON}
        /\ c.bindings[a].concrete.name \in DOMAIN ClassTable
        /\ DeclaredCompilable(c.bindings[a].concrete.name)}

\* C35: a compile() step stores a factory under the abstract of every
\* eligible binding and of no other, for the bound class and with the
\* singleton flag of the binding's scope, returns their number and turns
\* compilation mode on, also when that number is 0.
C35_CompileExactlyEligible ==
    [][CompileStep =>
          /\ cont'.compilation_enabled
          /\ last'.val = LongVal(Cardinality(Eligible(cont)))
          /\ DOMAIN cont'.compiled_factories
                = (DOMAIN cont.compiled_factories) \cup Eligible(cont)
          /\ \A a \in Eligible(cont) :
                /\ cont'.compiled_factories[a].class_name = cont.bindings[a].concrete.name
                /\ cont'.compiled_factories[a].is_singleton
                      = (cont.bindings[a].scope = SCOPE_SINGLETON)
          /\ \A a \in (DOMAIN cont.compiled_factories) \ Eligible(cont) :
                cont'.compiled_factories[a] = cont.compiled_factories[a]]_vars

\* bind(P), singleton(Q), bind(svc, closure), compile(): two factories, one
\* of them a singleton's, none for the closure binding
C35_Witness ==
    /\ last.op = "compile"
    /\ last.val = LongVal(2)
    /\ \E a \in DOMAIN cont.compiled_factories : cont.compiled_factories[a].is_singleton
    /\ \E a \in DOMAIN cont.compiled_factories : ~cont.compiled_factories[a].is_singleton
    /\ \E a \in DOMAIN cont.bindings : a \notin DOMAIN cont.compiled_factories


(***************************************************************************)
(* The factory compiler on its own (src/src/compiler.c:293-375).  The      *)
(* metadata of class Any is built as sf_cache_build builds it, one         *)
(* constructor parameter after the other, and then handed to               *)
(* sf_compiler_can_compile and sf_compiler_compile_class.                  *)
(***************************************************************************)
MaxParams == 9
MaxUnhinted == 2

sf_class_meta_create(class_name) ==
    [class_name |-> class_name, params |-> <<>>, param_count |-> 0,
     is_instantiable |-> TRUE, refcount |-> 1]

\* zend_arg_info of the declared constructors: a class hint or none, a
\* default or none
DeclaredParams ==
    {Param("p", h, FALSE, d, FALSE) : h \in {"P", NULL}, d \in BOOLEAN}

MetaOfAny == cont.reflection_cache["Any"]

CompilerInit ==
    /\ world = "compiler"
    /\ \E b \in Builds(world) : hashOf = b[1] /\ sfHasSimd = b[2]
    /\ \E inst \in BOOLEAN :
          cont = [sf_container_create EXCEPT !.reflection_cache =
                     HtUpdate(@, "Any", [sf_class_meta_create("Any") EXCEPT
                                            !.is_instantiable = inst])]
    /\ last = NoCall
    /\ prev = NoCall
    /\ halted = FALSE
    /\ ops = 0

\* one round of the parameter loop of sf_cache_build
BuildParam ==
    /\ last.op = "none"
    /\ MetaOfAny.is_instantiable
    /\ MetaOfAny.param_count < MaxParams
    /\ \E p \in DeclaredParams :
          /\ p.type_hint = NULL =>
                Cardinality({i \in 1..MetaOfAny.param_count :
                                MetaOfAny.params[i].type_hint = NULL}) < MaxUnhinted
          /\ cont' = [cont EXCEPT !.reflection_cache =
                         HtUpdate(@, "Any",
                                  [MetaOfAny EXCEPT !.params = Append(@, p),
                                                    !.param_count = @ + 1])]
    /\ UNCHANGED <<hashOf, sfHasSimd, world, last, prev, halted, ops>>

CanCompile ==
    /\ last.op # "canCompile"
    /\ last' = Answered("canCompile", "Any", sf_compiler_can_compile(MetaOfAny))
    /\ UNCHANGED <<cont, hashOf, sfHasSimd, world, prev, halted, ops>>

CompileClass ==
    /\ last.op # "compileClass"
    /\ \E single \in BOOLEAN :
          LET factory == sf_compiler_compile_class(MetaOfAny, single)
          IN /\ cont' = [cont EXCEPT !.compiled_factories =
                            IF factory = NoFactory THEN @
                            ELSE HtUpdate(@, "Any", factory)]
             /\ last' = Answered("compileClass", "Any", factory # NoFactory)
    /\ UNCHANGED <<hashOf, sfHasSimd, world, prev, halted, ops>>

CompilerNext ==
    \/ BuildParam
    \/ CanCompile
    \/ CompileClass

CompilerSpec == CompilerInit /\ [][CompilerNext]_vars

\* canCompile as the specification words it, on a metadata record
WordedCanCompile(meta) ==
    /\ meta.is_instantiable
    /\ meta.param_count <= 8
    /\ \A i \in 1..meta.param_count :
          ~meta.params[i].has_default => meta.params[i].type_hint # NULL

\* length of the maximal leading run of type-hinted parameters
LeadingRun(meta) ==
    CHOOSE n \in 0..meta.param_count :
       /\ \A i \in 1..n : meta.params[i].type_hint # NULL
       /\ n = meta.param_count \/ meta.params[n + 1].type_hint = NULL

\* C36: canCompile answers true exactly for instantiable metadata of at most
\* 8 parameters whose parameters without a default are all type-hinted;
\* compile returns a factory exactly then, and the factory's dependencies
\* are the type hints of the maximal leading run of type-hinted parameters,
\* at most 8 of them.
C36_CanCompileAndDeps ==
    /\ last.op = "canCompile" => last.flag = WordedCanCompile(MetaOfAny)
    /\ last.op = "compileClass" =>
          /\ last.flag = WordedCanCompile(MetaOfAny)
          /\ last.flag =>
                /\ HtHas(cont.compiled_factories, "Any")
                /\ cont.compiled_factories["Any"].dep_count = LeadingRun(MetaOfAny)
                /\ cont.compiled_factories["Any"].dep_names
                      = [i \in 1..LeadingRun(MetaOfAny) |-> MetaOfAny.params[i].type_hint]
                /\ cont.compiled_factories["Any"].dep_count <= 8

\* a compiled constructor (P $p, P $p, $p = default, P $p): two dependencies
\* of four parameters
C36_Witness ==
    /\ last.op = "compileClass"
    /\ last.flag
    /\ MetaOfAny.param_count = 4
    /\ cont.compiled_factories["Any"].dep_count = 2
    /\ MetaOfAny.params[4].type_hint # NULL


\* the buffers make() used, when the process survived the call
ScratchOf(o) == IF o.op = "make" /\ ~halted THEN o.scratch ELSE {}

\* an autowired object: its constructor arguments are the values for the
\* first parameters of its class, in order, and building stopped only at a
\* parameter that has a default or is variadic
RECURSIVE PrefixOfDeclared(_, _)
PrefixOfDeclared(v, provided) ==
    \/ v.kind # "object"
    \/ v.cls \notin DOMAIN ClassTable
    \/ LET ps == ClassTable[v.cls].params
       IN /\ Len(v.args) <= Len(ps)
          /\ \A i \in 1..Len(v.args) :
                /\ HtHas(provided, ps[i].name) => v.args[i] = provided[ps[i].name]
                /\ PrefixOfDeclared(v.args[i], EmptyHT)
          /\ Len(v.args) < Len(ps) =>
                \/ ps[Len(v.args) + 1].has_default
                \/ ps[Len(v.args) + 1].is_variadic

\* C37: what autowiring passes to a constructor is a prefix of the declared
\* parameters, argument i being the value for parameter i, stopped only at
\* a defaulted parameter, and the arguments written to a scratch buffer
\* never outnumber the declared parameters nor the zvals the buffer holds.
C37_ArgsArePrefixWithinBuffer ==
    /\ last.op = "make" /\ last.ok /\ ~last.cached => PrefixOfDeclared(last.val, last.params)
    /\ \A b \in ScratchOf(last) :
          /\ b.written <= b.declared
          /\ b.written <= b.capacity

\* C38: every argument built during a make() is released once, and no pool
\* buffer is still handed out when the call has returned.
C38_ArgsReleasedBuffersReturned ==
    (last.op = "make" /\ ~halted) =>
        /\ last.released = last.built
        /\ cont.buffers = <<>>
        /\ \A p \in DOMAIN cont.pool.in_use : cont.pool.in_use[p] = 0


\* C39: when flush() or the end of the request has cleared the reflection
\* cache, no metadata record that was in it is left undestroyed.
C39_MetadataDestroyedOnClear ==
    last.op \in {"flush", "request"} => cont.orphans = {}

====
